---- MODULE Spec2Model ----
(***************************************************************************)
(* Model of the scrape -> normalize/dedupe -> region resolution -> upsert  *)
(* pipeline of src/standvirtual.py and src/db.py.                          *)
(*                                                                         *)
(* Text that the code only stores and compares (listing_id, url, title,    *)
(* ...) is a TLA+ string.  Text that the code transforms (city, region,    *)
(* district names, aliases) is a sequence of characters, one TLA+ string   *)
(* per character; the accented letters are written E' e' C, c, U' u'.      *)
(***************************************************************************)
EXTENDS Integers, Sequences, FiniteSets, TLC

\* ------------------------------------------------------------------------
\* Bounds of the model
\* ------------------------------------------------------------------------
MaxBatch == 2      \* longest record list handed to save_cars directly
MaxCards == 2      \* most cards parsed from one page
MaxPages == 2      \* largest requested page count of run_scrape
MaxClock == 1      \* latest reading of the database clock
MaxText == 3       \* longest enumerated text of a numeric field

\* ------------------------------------------------------------------------
\* Encoding of None / NULL
\* ------------------------------------------------------------------------
None    == "<None>"        \* None in a stored-only text column
NoneStr == <<"<None>">>    \* None in a city / region value
IntNull == 0 - 1           \* None / NULL in an integer column

\* ------------------------------------------------------------------------
\* Characters and the string functions of src/db.py
\* ------------------------------------------------------------------------
UpperAscii == <<"A","B","C","D","E","F","G","H","I","J","K","L","M",
                "N","O","P","Q","R","S","T","U","V","W","X","Y","Z">>
LowerAscii == <<"a","b","c","d","e","f","g","h","i","j","k","l","m",
                "n","o","p","q","r","s","t","u","v","w","x","y","z">>
Digits == {"0","1","2","3","4","5","6","7","8","9"}

\* Accented letters: the letter, its NFKD base letter, its Unicode lowercase.
Accented ==
  { [ch |-> "E'", base |-> "E", low |-> "e'"],
    [ch |-> "e'", base |-> "e", low |-> "e'"],
    [ch |-> "C,", base |-> "C", low |-> "c,"],
    [ch |-> "c,", base |-> "c", low |-> "c,"],
    [ch |-> "U'", base |-> "U", low |-> "u'"],
    [ch |-> "u'", base |-> "u", low |-> "u'"] }

IsUpperAscii(c) == \E i \in 1..26 : UpperAscii[i] = c
IsAccented(c) == \E a \in Accented : a.ch = c

\* ASCII-only lowercasing: SQLite's built-in lower().
AsciiLowerCh(c) ==
  IF IsUpperAscii(c)
    THEN LowerAscii[CHOOSE i \in 1..26 : UpperAscii[i] = c]
    ELSE c

\* Unicode lowercasing: Python's str.lower() and Postgres' lower().
UnicodeLowerCh(c) ==
  IF IsAccented(c)
    THEN (CHOOSE a \in Accented : a.ch = c).low
    ELSE AsciiLowerCh(c)

AsciiLower(s) == [i \in 1..Len(s) |-> AsciiLowerCh(s[i])]
UnicodeLower(s) == [i \in 1..Len(s) |-> UnicodeLowerCh(s[i])]

\* str.lower()
PyLower(s) == UnicodeLower(s)

\* lower() as the storage backend computes it.
DbLower(pg, s) == IF pg THEN UnicodeLower(s) ELSE AsciiLower(s)

\* unicodedata.normalize("NFKD", s).encode("ascii", "ignore").decode("ascii"):
\* an accented letter decomposes to base letter + combining mark, and the
\* mark is dropped.
AsciiFoldCh(c) == IF IsAccented(c) THEN (CHOOSE a \in Accented : a.ch = c).base ELSE c
AsciiFold(s) == [i \in 1..Len(s) |-> AsciiFoldCh(s[i])]

IsSpace(c) == c = " "

RECURSIVE LStrip(_)
LStrip(s) == IF s # <<>> /\ IsSpace(Head(s)) THEN LStrip(Tail(s)) ELSE s

RECURSIVE RStrip(_)
RStrip(s) ==
  IF s # <<>> /\ IsSpace(s[Len(s)]) THEN RStrip(SubSeq(s, 1, Len(s) - 1)) ELSE s

\* str.strip()
Strip(s) == RStrip(LStrip(s))

IsSlugAlnum(c) == c \in Digits \/ (\E i \in 1..26 : LowerAscii[i] = c)

\* re.sub(r"[^a-z0-9]+", " ", s): every maximal run of other characters
\* becomes one space.
RECURSIVE SubNonAlnum(_, _)
SubNonAlnum(s, inRun) ==
  IF s = <<>> THEN <<>>
  ELSE IF IsSlugAlnum(Head(s)) THEN <<Head(s)>> \o SubNonAlnum(Tail(s), FALSE)
  ELSE IF inRun THEN SubNonAlnum(Tail(s), TRUE)
  ELSE <<" ">> \o SubNonAlnum(Tail(s), TRUE)

_slug(s) == Strip(SubNonAlnum(PyLower(AsciiFold(s)), FALSE))

\* haystack LIKE '%' || needle || '%' for a needle without wildcards.
Contains(hay, needle) ==
  \E i \in 0..(Len(hay) - Len(needle)) :
    SubSeq(hay, i + 1, i + Len(needle)) = needle

\* Python truthiness of an optional text value.
Truthy(x) == x # None /\ x # ""
TruthyStr(s) == s # NoneStr /\ s # <<>>

\* ------------------------------------------------------------------------
\* Text to integer: INT_RE, _to_int and to_int of src/standvirtual.py
\* ------------------------------------------------------------------------
\* Python values of the numeric fields: None, an int, or a str.
PyNone     == [kind |-> "None"]
PyIntV(n)  == [kind |-> "int", v |-> n]
PyStrV(t)  == [kind |-> "str", s |-> t]

\* How a call ends: with a value, or with an exception that leaves it.
Returned(v) == [raised |-> FALSE, value |-> v]
Escaped     == [raised |-> TRUE,  value |-> PyNone]

DigitChars == <<"0","1","2","3","4","5","6","7","8","9">>
DigitVal(c) == (CHOOSE i \in 1..10 : DigitChars[i] = c) - 1

\* s.replace(old, "") for a one-character old.
replace(s, old) == SelectSeq(s, LAMBDA c : c # old)

\* The decimal digits of a natural number.
RECURSIVE NatToText(_)
NatToText(n) ==
  IF n < 10 THEN <<DigitChars[n + 1]>>
  ELSE NatToText(n \div 10) \o <<DigitChars[(n % 10) + 1]>>

\* str(x)
str_(x) ==
  CASE x.kind = "None" -> <<"N","o","n","e">>
    [] x.kind = "int"  -> IF x.v < 0 THEN <<"-">> \o NatToText(0 - x.v)
                          ELSE NatToText(x.v)
    [] OTHER           -> x.s

\* int(s) for a str s: surrounding whitespace is skipped, then an optional
\* sign and decimal digits, single underscores allowed between digits;
\* anything else is a ValueError.
ValueError == [error |-> "ValueError", value |-> 0]
int_(s) ==
  LET t == Strip(s)
      signed == t # <<>> /\ Head(t) \in {"+", "-"}
      body == IF signed THEN Tail(t) ELSE t
      RECURSIVE Scan(_, _, _)
      Scan(i, acc, afterDigit) ==
        IF i > Len(body)
          THEN IF afterDigit THEN [error |-> "none", value |-> acc] ELSE ValueError
        ELSE IF body[i] \in Digits
          THEN Scan(i + 1, acc * 10 + DigitVal(body[i]), TRUE)
        ELSE IF body[i] = "_" /\ afterDigit THEN Scan(i + 1, acc, FALSE)
        ELSE ValueError
      r == Scan(1, 0, FALSE)
  IN IF r.error = "none" /\ signed /\ Head(t) = "-"
       THEN [r EXCEPT !.value = 0 - r.value]
       ELSE r

\* bool(x) is False
Falsy(x) ==
  \/ x.kind = "None"
  \/ x.kind = "int" /\ x.v = 0
  \/ x.kind = "str" /\ x.s = <<>>

\* Mutant: the try/except around int() is left out.
_to_int_noExcept(text) ==
  IF Falsy(text) THEN Returned(PyNone)
  ELSE LET r == int_(replace(replace(str_(text), " "), "."))
       IN IF r.error = "none" THEN Returned(PyIntV(r.value)) ELSE Escaped

\* _to_int: None for a falsy text, else int() of the text without ' ' and
\* '.', None on ValueError.
_to_int(text) ==
  IF Falsy(text) THEN Returned(PyNone)
  ELSE LET r == int_(replace(replace(str_(text), " "), "."))
       IN IF r.error = "none" THEN Returned(PyIntV(r.value))
          ELSE IF r.error = "ValueError" THEN Returned(PyNone)
          ELSE Escaped

\* to_int of _normalize_and_dedupe: int(str(x).replace(".", "").replace(" ",
\* "")), None on any Exception.
to_int(x) ==
  LET r == int_(replace(replace(str_(x), "."), " "))
  IN IF r.error = "none" THEN Returned(PyIntV(r.value)) ELSE Returned(PyNone)

NoMatch == [matched |-> FALSE, group0 |-> <<>>]

\* Mutant: the pattern is \d+ .
INT_RE_search_digitsOnly(text) ==
  LET starts == { i \in 1..Len(text) : text[i] \in Digits }
  IN IF starts = {} THEN NoMatch
     ELSE LET i == CHOOSE a \in starts : \A b \in starts : a <= b
              ends == { j \in i..Len(text) :
                          \A k \in i..j : text[k] \in Digits }
              j == CHOOSE a \in ends : \A b \in ends : b <= a
          IN [matched |-> TRUE, group0 |-> SubSeq(text, i, j)]

\* INT_RE.search(text) for INT_RE = \d[\d .]* : the leftmost digit and the
\* longest run of digits, spaces and dots that follows it.
INT_RE_search(text) ==
  LET starts == { i \in 1..Len(text) : text[i] \in Digits }
  IN IF starts = {} THEN NoMatch
     ELSE LET i == CHOOSE a \in starts : \A b \in starts : a <= b
              ends == { j \in i..Len(text) :
                          \A k \in i..j : text[k] \in Digits \cup {" ", "."} }
              j == CHOOSE a \in ends : \A b \in ends : b <= a
          IN [matched |-> TRUE, group0 |-> SubSeq(text, i, j)]

\* The price and mileage of a card: m = INT_RE.search(text);
\* _to_int(m.group(0)) if m else None.  An absent element gives None.
extract_int(text) ==
  IF Falsy(text) THEN Returned(PyNone)
  ELSE LET m == INT_RE_search(text.s)
       IN IF m.matched THEN _to_int(PyStrV(m.group0)) ELSE Returned(PyNone)

\* An integer column of a record, as the Python value it holds, and back.
Tag(x) == IF x = IntNull THEN PyNone ELSE PyIntV(x)
Untag(v) == IF v.kind = "int" THEN v.v ELSE IntNull

\* ------------------------------------------------------------------------
\* Cards: _find_result_cards and _extract_url_and_id of src/standvirtual.py
\* ------------------------------------------------------------------------
\* An article is represented by what the extractors read of it: the href of
\* its <a href> elements, in document order, its h2 and h3 headings, in
\* document order, and the <p> texts of each of its <dl> blocks.
Art(links, headings, dls) == [links |-> links, headings |-> headings, dls |-> dls]
BASE ==
  <<"h","t","t","p","s",":","/","/","w","w","w",".",
    "s","t","a","n","d","v","i","r","t","u","a","l",".","c","o","m">>
ListingPath == <<"/","c","a","r","r","o","s","/","a","n","u","n","c","i","o","/">>
DotHtml     == <<".","h","t","m","l">>

\* needle in hay
In(needle, hay) == Contains(hay, needle)

\* hay.endswith(suffix)
EndsWith(hay, suffix) ==
  /\ Len(suffix) <= Len(hay)
  /\ SubSeq(hay, Len(hay) - Len(suffix) + 1, Len(hay)) = suffix

\* hay.startswith(prefix)
StartsWith(hay, prefix) ==
  /\ Len(prefix) <= Len(hay)
  /\ SubSeq(hay, 1, Len(prefix)) = prefix

\* "/carros/anuncio/" in href and "ID" in href and href.endswith(".html")
IsListingHref(href) ==
  /\ In(ListingPath, href)
  /\ In(<<"I","D">>, href)
  /\ EndsWith(href, DotHtml)

\* art.find("a", href=True): the first link of the article, None without one.
FirstLink(art) == IF art.links = <<>> THEN NoneStr ELSE art.links[1]

\* The body of the loop of _find_result_cards: the article is kept when its
\* first link is listing-like.
IsCard(art) == FirstLink(art) # NoneStr /\ IsListingHref(FirstLink(art))

\* _find_result_cards: no container, no cards; else the articles of the
\* container that pass, in document order.
_find_result_cards(soup) ==
  IF ~soup.container THEN <<>>
  ELSE SelectSeq(soup.articles, IsCard)

\* urljoin(BASE, href) for the hrefs of the model: an absolute URL stays, a
\* path is put behind the host.
urljoin(base, href) ==
  IF StartsWith(href, <<"h","t","t","p","s",":","/","/">>) THEN href
  ELSE IF StartsWith(href, <<"/">>) THEN base \o href
  ELSE base \o <<"/">> \o href

NoIdMatch == [matched |-> FALSE, group1 |-> <<>>]

\* The run of characters other than '.' and '/' that starts at position i.
RunEnd(url, i) ==
  LET stops == { j \in i..Len(url) : url[j] \in {".", "/"} }
  IN IF stops = {} THEN Len(url) + 1
     ELSE CHOOSE j \in stops : \A k \in stops : j <= k

\* ID_RE.search(url) for ID_RE = ID([^.\/]+)\.html with re.I: the leftmost
\* "id", in either case, that is followed by at least one character other
\* than '.' and '/' and then, where that run ends, by ".html"; group 1 is
\* the run.
ID_RE_search(url) ==
  LET at == { i \in 1..(Len(url) - 1) :
                /\ PyLower(SubSeq(url, i, i + 1)) = <<"i","d">>
                /\ RunEnd(url, i + 2) > i + 2
                /\ RunEnd(url, i + 2) + 4 <= Len(url)
                /\ PyLower(SubSeq(url, RunEnd(url, i + 2), RunEnd(url, i + 2) + 4)) = DotHtml }
  IN IF at = {} THEN NoIdMatch
     ELSE LET i == CHOOSE a \in at : \A b \in at : a <= b
          IN [matched |-> TRUE, group1 |-> SubSeq(url, i + 2, RunEnd(url, i + 2) - 1)]

\* _extract_url_and_id: (None, None) without a link, else the joined URL and
\* group 1 of the match, None without a match.
_extract_url_and_id(art) ==
  IF FirstLink(art) = NoneStr THEN [url |-> NoneStr, listing_id |-> NoneStr]
  ELSE LET url == urljoin(BASE, FirstLink(art))
           m == ID_RE_search(url)
       IN [url |-> url, listing_id |-> IF m.matched THEN m.group1 ELSE NoneStr]

\* ------------------------------------------------------------------------
\* Card fields: title, price and currency
\* ------------------------------------------------------------------------
\* A heading is its tag, its text and the text of the <p> that follows it
\* as a sibling (None without one).
Heading(tag, text, next_p) == [tag |-> tag, text |-> text, next_p |-> next_p]

\* el.get_text(strip=True) of an element with one text node.
get_text(text) == Strip(text)

\* _extract_title: the text of the first h2 or h3, None without a heading.
_extract_title(art) ==
  IF art.headings = <<>> THEN NoneStr ELSE get_text(art.headings[1].text)

\* art.find_all("h3")
H3s(art) == SelectSeq(art.headings, LAMBDA h : h.tag = "h3")

EUR == <<"E","U","R">>

\* _extract_price_currency: the first h3 in whose text INT_RE finds a match
\* gives the price, and its sibling <p> the currency; "EUR" when there is a
\* price and no currency text.
_extract_price_currency(art) ==
  LET hs == H3s(art)
      hits == { i \in 1..Len(hs) : INT_RE_search(get_text(hs[i].text)).matched }
  IN IF hits = {} THEN [price |-> PyNone, currency |-> NoneStr]
     ELSE LET i == CHOOSE a \in hits : \A b \in hits : a <= b
              m == INT_RE_search(get_text(hs[i].text))
              price == _to_int(PyStrV(m.group0)).value
              pcur == IF hs[i].next_p = NoneStr THEN NoneStr ELSE get_text(hs[i].next_p)
          IN [price |-> price,
              currency |-> IF price # PyNone /\ ~TruthyStr(pcur) THEN EUR ELSE pcur]

\* ------------------------------------------------------------------------
\* Card fields: city, region and seller type
\* ------------------------------------------------------------------------
Profissional == <<"P","r","o","f","i","s","s","i","o","n","a","l">>
Particular   == <<"P","a","r","t","i","c","u","l","a","r">>

NoLoc == [matched |-> FALSE, group1 |-> <<>>, group2 |-> NoneStr]

\* re.match(r"^\s*([^()]+?)(?:\s*\(([^)]+)\))?\s*$", loc): a text without
\* parentheses is group 1; otherwise the text before the first parenthesis,
\* which has to be an opening one, is group 1 and the text up to the next
\* closing one, after which only whitespace may follow, is group 2.
LocMatch(loc) ==
  LET parens == { i \in 1..Len(loc) : loc[i] \in {"(", ")"} }
      i == CHOOSE a \in parens : \A b \in parens : a <= b
      closes == { j \in (i + 1)..Len(loc) : loc[j] = ")" }
      j == CHOOSE a \in closes : \A b \in closes : a <= b
  IN IF loc = <<>> THEN NoLoc
     ELSE IF parens = {} THEN [matched |-> TRUE, group1 |-> loc, group2 |-> NoneStr]
     ELSE IF loc[i] # "(" \/ i < 2 \/ closes = {} THEN NoLoc
     ELSE IF j < i + 2 \/ (\E k \in (j + 1)..Len(loc) : ~IsSpace(loc[k])) THEN NoLoc
     ELSE [matched |-> TRUE, group1 |-> SubSeq(loc, 1, i - 1),
           group2 |-> SubSeq(loc, i + 1, j - 1)]

\* "Profissional" if "Profissional" in stxt else ("Particular" if
\* "Particular" in stxt else None)
SellerLabel(stxt) ==
  IF In(Profissional, stxt) THEN Profissional
  ELSE IF In(Particular, stxt) THEN Particular
  ELSE NoneStr

\* _extract_location_and_seller: both come from the <p> elements of the
\* second <dl>, the location from the first and the seller from the second.
_extract_location_and_seller(art) ==
  LET ps == art.dls[2]
      m == LocMatch(get_text(ps[1]))
      city == IF Len(art.dls) >= 2 /\ ps # <<>> /\ m.matched /\ Strip(m.group1) # <<>>
                THEN Strip(m.group1) ELSE NoneStr
      region == IF Len(art.dls) >= 2 /\ ps # <<>> /\ m.matched /\ m.group2 # NoneStr
                  THEN Strip(m.group2) ELSE NoneStr
      seller_type == IF Len(art.dls) >= 2 /\ Len(ps) >= 2
                       THEN SellerLabel(get_text(ps[2])) ELSE NoneStr
  IN [city |-> city, region |-> region, seller_type |-> seller_type]

\* ------------------------------------------------------------------------
\* Card fields: brand
\* ------------------------------------------------------------------------
\* MULTIWORD_BRANDS, in list order ("e:" is the letter e with diaeresis).
MULTIWORD_BRANDS ==
  << <<"a","l","f","a"," ","r","o","m","e","o">>,
     <<"a","s","t","o","n"," ","m","a","r","t","i","n">>,
     <<"l","a","n","d"," ","r","o","v","e","r">>,
     <<"m","e","r","c","e","d","e","s","-","b","e","n","z">>,
     <<"m","e","r","c","e","d","e","s"," ","b","e","n","z">>,
     <<"m","i","n","i">>,
     <<"c","i","t","r","o","e:","n">>,
     <<"c","i","t","r","o","e","n">>,
     <<"v","o","l","k","s","w","a","g","e","n">>,
     <<"v","w">>,
     <<"s","e","a","t">>,
     <<"c","u","p","r","a">>,
     <<"d","s">>,
     <<"p","e","u","g","e","o","t">>,
     <<"r","e","n","a","u","l","t">>,
     <<"o","p","e","l">>,
     <<"t","o","y","o","t","a">>,
     <<"h","o","n","d","a">>,
     <<"k","i","a">>,
     <<"h","y","u","n","d","a","i">>,
     <<"s","k","o","d","a">>,
     <<"a","u","d","i">>,
     <<"b","m","w">>,
     <<"f","i","a","t">>,
     <<"m","a","z","d","a">>,
     <<"m","i","t","s","u","b","i","s","h","i">>,
     <<"n","i","s","s","a","n">>,
     <<"d","a","c","i","a">>,
     <<"v","o","l","v","o">>,
     <<"f","o","r","d">>,
     <<"s","u","z","u","k","i">> >>

\* title.split()[0] when split() is not empty: the text between the leading
\* whitespace and the next whitespace.
FirstToken(title) ==
  LET t == LStrip(title)
      gaps == { i \in 1..Len(t) : IsSpace(t[i]) }
      gap == IF gaps = {} THEN Len(t) + 1
             ELSE CHOOSE a \in gaps : \A b \in gaps : a <= b
  IN SubSeq(t, 1, gap - 1)

\* _extract_brand_from_title: None for a falsy title; the title's prefix as
\* long as the first listed brand that, followed by a space, starts the
\* lowercased title; else title.split()[0], an IndexError when split() is
\* empty.
_extract_brand_from_title(title) ==
  LET low == PyLower(title)
      hits == { i \in 1..Len(MULTIWORD_BRANDS) :
                  StartsWith(low, MULTIWORD_BRANDS[i] \o <<" ">>) }
  IN IF ~TruthyStr(title) THEN Returned(PyNone)
     ELSE IF hits # {}
       THEN LET i == CHOOSE a \in hits : \A b \in hits : a <= b
            IN Returned(PyStrV(SubSeq(title, 1, Len(MULTIWORD_BRANDS[i]))))
     ELSE IF LStrip(title) = <<>> THEN Escaped
     ELSE Returned(PyStrV(FirstToken(title)))

\* ------------------------------------------------------------------------
\* Reference data: the districts and aliases of _seed_districts
\* ------------------------------------------------------------------------
Aveiro         == <<"A","v","e","i","r","o">>
Beja           == <<"B","e","j","a">>
Braga          == <<"B","r","a","g","a">>
Braganca_      == <<"B","r","a","g","a","n","c,","a">>
CasteloBranco  == <<"C","a","s","t","e","l","o"," ","B","r","a","n","c","o">>
Coimbra        == <<"C","o","i","m","b","r","a">>
Evora_         == <<"E'","v","o","r","a">>
Faro           == <<"F","a","r","o">>
Guarda         == <<"G","u","a","r","d","a">>
Leiria         == <<"L","e","i","r","i","a">>
Lisboa         == <<"L","i","s","b","o","a">>
Portalegre     == <<"P","o","r","t","a","l","e","g","r","e">>
Porto          == <<"P","o","r","t","o">>
Santarem_      == <<"S","a","n","t","a","r","e'","m">>
Setubal_       == <<"S","e","t","u'","b","a","l">>
VianaDoCastelo == <<"V","i","a","n","a"," ","d","o"," ","C","a","s","t","e","l","o">>
VilaReal       == <<"V","i","l","a"," ","R","e","a","l">>
Viseu          == <<"V","i","s","e","u">>

Lisbon         == <<"L","i","s","b","o","n">>
Setubal        == <<"S","e","t","u","b","a","l">>
Evora          == <<"E","v","o","r","a">>
Braganca       == <<"B","r","a","g","a","n","c","a">>
Santarem       == <<"S","a","n","t","a","r","e","m">>
Viana_do_Castelo == <<"V","i","a","n","a","-","d","o","-","C","a","s","t","e","l","o">>
Vila_Real      == <<"V","i","l","a","-","R","e","a","l">>

\* The VALUES list of the first INSERT, in order.
SeedNames ==
  << Aveiro, Beja, Braga, Braganca_, CasteloBranco, Coimbra, Evora_, Faro,
     Guarda, Leiria, Lisboa, Portalegre, Porto, Santarem_, Setubal_,
     VianaDoCastelo, VilaReal, Viseu >>

\* The alias INSERTs, in order: the alias and the district name it selects.
SeedAliases ==
  << [alias |-> Lisbon,           name |-> Lisboa],
     [alias |-> Setubal,          name |-> Setubal_],
     [alias |-> Evora,            name |-> Evora_],
     [alias |-> Braganca,         name |-> Braganca_],
     [alias |-> Santarem,         name |-> Santarem_],
     [alias |-> Viana_do_Castelo, name |-> VianaDoCastelo],
     [alias |-> Vila_Real,        name |-> VilaReal] >>

\* The uniqueness constraints of the reference tables (schema.sql): one row
\* per (level, name) in regions, one row per (region_id, alias) in
\* region_aliases.
RegionConflict(regs, name) ==
  \E i \in 1..Len(regs) : regs[i].level = "district" /\ regs[i].name = name
AliasConflict(als, row) == \E j \in 1..Len(als) : als[j] = row

\* INSERT OR IGNORE INTO regions: a district already present is skipped, a
\* new one gets the next row id.
RECURSIVE InsertRegions(_, _)
InsertRegions(regs, names) ==
  IF names = <<>> THEN regs
  ELSE IF RegionConflict(regs, Head(names))
    THEN InsertRegions(regs, Tail(names))
    ELSE InsertRegions(
           Append(regs, [id |-> Len(regs) + 1, level |-> "district",
                         name |-> Head(names)]),
           Tail(names))

\* INSERT OR IGNORE INTO region_aliases SELECT id, alias FROM regions WHERE
\* level = 'district' AND name = ...: one row per selected district, skipped
\* when already present.
RECURSIVE InsertAliases(_, _, _)
InsertAliases(als, regs, todo) ==
  IF todo = <<>> THEN als
  ELSE LET a == Head(todo)
           hit == { i \in 1..Len(regs) :
                      regs[i].level = "district" /\ regs[i].name = a.name }
       IN IF hit = {} THEN InsertAliases(als, regs, Tail(todo))
          ELSE LET row == [region_id |-> regs[CHOOSE i \in hit : TRUE].id,
                           alias |-> a.alias]
               IN IF AliasConflict(als, row)
                    THEN InsertAliases(als, regs, Tail(todo))
                    ELSE InsertAliases(Append(als, row), regs, Tail(todo))

\* The reference tables as _seed_districts leaves them on an empty database.
SeededRegions == InsertRegions(<<>>, SeedNames)
SeededAliases == InsertAliases(<<>>, SeededRegions, SeedAliases)

\* The two INSERT groups, tabulated once for the table contents that occur
\* (empty, and seeded).
SeedTable ==
  [x \in {<<(<<>>), (<<>>)>>, <<SeededRegions, SeededAliases>>} |->
     [regions |-> InsertRegions(x[1], SeedNames),
      region_aliases |-> InsertAliases(x[2], InsertRegions(x[1], SeedNames), SeedAliases)]]
  @@ <<>>

\* INSERT OR REPLACE INTO regions: a district already present is deleted and
\* inserted again, under the next row id.
RECURSIVE ReplaceRegions(_, _)
ReplaceRegions(regs, names) ==
  IF names = <<>> THEN regs
  ELSE LET kept == SelectSeq(regs, LAMBDA r : ~(r.level = "district" /\ r.name = Head(names)))
           next == IF regs = <<>> THEN 1 ELSE regs[Len(regs)].id + 1
       IN ReplaceRegions(Append(kept, [id |-> next, level |-> "district",
                                       name |-> Head(names)]),
                         Tail(names))

\* Mutant: the seeding statements say INSERT OR REPLACE.
_seed_districts_orReplace(pg, regs, als) ==
  IF pg THEN [regions |-> regs, region_aliases |-> als]
  ELSE [regions |-> ReplaceRegions(regs, SeedNames),
        region_aliases |-> InsertAliases(als, ReplaceRegions(regs, SeedNames), SeedAliases)]

\* _seed_districts: a no-op on Postgres, the two INSERT groups on SQLite.
_seed_districts(pg, regs, als) ==
  IF pg THEN [regions |-> regs, region_aliases |-> als]
  ELSE IF <<regs, als>> \in DOMAIN SeedTable THEN SeedTable[<<regs, als>>]
  ELSE [regions |-> InsertRegions(regs, SeedNames),
        region_aliases |-> InsertAliases(als, InsertRegions(regs, SeedNames), SeedAliases)]

\* ------------------------------------------------------------------------
\* resolve_region_id
\* ------------------------------------------------------------------------
\* The outcome of a call: a region id, IntNull for None, or an exception.
Found(id) == [raised |-> FALSE, rid |-> id]
Raised    == [raised |-> TRUE,  rid |-> IntNull]

\* Mutant: cand = (city or region or "").strip()
Candidate_cityFirst(city, region) ==
  Strip(IF TruthyStr(city) THEN city
        ELSE IF TruthyStr(region) THEN region
        ELSE <<>>)

\* cand = (region or city or "").strip()
Candidate(city, region) ==
  Strip(IF TruthyStr(region) THEN region
        ELSE IF TruthyStr(city) THEN city
        ELSE <<>>)

\* First row of a query with LIMIT 1 and no ORDER BY: both backends return
\* the rows of an unchanged table in storage order.
FirstOf(rows) == IF rows = <<>> THEN IntNull ELSE rows[1]

\* SELECT r.id FROM region_aliases a JOIN regions r ON r.id = a.region_id
\* WHERE lower(a.alias) = cand.lower()
AliasHits(pg, regs, als, cand) ==
  LET Hit(j) == /\ DbLower(pg, als[j].alias) = PyLower(cand)
                /\ \E i \in 1..Len(regs) : regs[i].id = als[j].region_id
      RECURSIVE Scan(_)
      Scan(j) == IF j > Len(als) THEN <<>>
                 ELSE IF Hit(j) THEN <<als[j].region_id>> \o Scan(j + 1)
                 ELSE Scan(j + 1)
  IN Scan(1)

\* SELECT id FROM regions WHERE level='district' AND lower(name) = cand.lower()
NameHits(pg, regs, cand) ==
  LET Hit(i) == /\ regs[i].level = "district"
                /\ DbLower(pg, regs[i].name) = PyLower(cand)
      RECURSIVE Scan(_)
      Scan(i) == IF i > Len(regs) THEN <<>>
                 ELSE IF Hit(i) THEN <<regs[i].id>> \o Scan(i + 1)
                 ELSE Scan(i + 1)
  IN Scan(1)

\* WITH c AS (district names UNION ALL aliases, each lowercased by the
\* backend) SELECT id FROM c WHERE slug LIKE '%' || n || '%'
SlugHits(pg, regs, als, s) ==
  LET RECURSIVE ScanR(_)
      ScanR(i) == IF i > Len(regs) THEN <<>>
                  ELSE IF /\ regs[i].level = "district"
                          /\ Contains(s, DbLower(pg, regs[i].name))
                    THEN <<regs[i].id>> \o ScanR(i + 1)
                    ELSE ScanR(i + 1)
      RECURSIVE ScanA(_)
      ScanA(j) == IF j > Len(als) THEN <<>>
                  ELSE IF Contains(s, DbLower(pg, als[j].alias))
                    THEN <<als[j].region_id>> \o ScanA(j + 1)
                    ELSE ScanA(j + 1)
  IN ScanR(1) \o ScanA(1)

\* The third query.  Its text is written with the Postgres placeholder %s
\* and the escaped %% ; _q only rewrites '?', so on SQLite the statement
\* reaches the engine unchanged and fails to parse (OperationalError).
SlugTier(pg, regs, als, cand) ==
  IF pg THEN Found(FirstOf(SlugHits(pg, regs, als, _slug(cand))))
  ELSE Raised

NameTier(pg, regs, als, cand) ==
  IF NameHits(pg, regs, cand) # <<>>
    THEN Found(FirstOf(NameHits(pg, regs, cand)))
    ELSE SlugTier(pg, regs, als, cand)

\* Mutant: the loose slug query is tried first.
ResolveTiers_slugFirst(pg, regs, als, cand) ==
  IF pg /\ SlugHits(pg, regs, als, _slug(cand)) # <<>>
    THEN Found(FirstOf(SlugHits(pg, regs, als, _slug(cand))))
  ELSE IF AliasHits(pg, regs, als, cand) # <<>>
    THEN Found(FirstOf(AliasHits(pg, regs, als, cand)))
    ELSE NameTier(pg, regs, als, cand)

\* The three queries for a non-empty candidate: alias, then name, then slug.
ResolveTiers(pg, regs, als, cand) ==
  IF AliasHits(pg, regs, als, cand) # <<>>
    THEN Found(FirstOf(AliasHits(pg, regs, als, cand)))
    ELSE NameTier(pg, regs, als, cand)

\* The candidate strings that occur in the model.
Sintra == <<"S","i","n","t","r","a">>
Faial  == <<"F","a","i","a","l">>       \* no district, no alias, no substring
Candidates ==
  { Evora, Evora_, Braganca, Braganca_, Santarem, Santarem_, Setubal, Setubal_,
    <<"B","R","A","G","A","N","C,","A">>, Lisboa, Porto, Faro, Sintra, Faial,
    <<"P","o","r","t","o"," ","S","a","l","v","o">>, Vila_Real }

\* ResolveTiers on the seeded tables, tabulated once for the candidates above
\* (the tables and the candidates are fixed, the queries are pure).
SeededTiers ==
  [x \in BOOLEAN \X Candidates |->
     ResolveTiers(x[1], SeededRegions, SeededAliases, x[2])] @@ <<>>

resolve_region_id(pg, regs, als, city, region) ==
  LET cand == Candidate(city, region)
  IN IF cand = <<>> THEN Found(IntNull)
     ELSE IF regs = SeededRegions /\ als = SeededAliases /\ cand \in Candidates
       THEN SeededTiers[<<pg, cand>>]
       ELSE ResolveTiers(pg, regs, als, cand)

\* The number of con.execute calls of a call of resolve_region_id: none
\* after "if not cand: return None", else one per query tried.
QueriesRun(pg, regs, als, city, region) ==
  LET cand == Candidate(city, region)
  IN IF cand = <<>> THEN 0
     ELSE IF AliasHits(pg, regs, als, cand) # <<>> THEN 1
     ELSE IF NameHits(pg, regs, cand) # <<>> THEN 2
     ELSE 3

\* ------------------------------------------------------------------------
\* Listing records (the dicts parse_page builds and save_cars reads)
\* ------------------------------------------------------------------------
\* A listing in the district of Lisboa.
RA1 == [listing_id |-> "A", title |-> "Audi A3", url |-> "/a",
        city |-> Sintra, region |-> Lisboa, seller_type |-> "Profissional",
        price |-> 9500, currency |-> "EUR", brand |-> "Audi",
        fuel |-> "Diesel", model_year |-> 2012, mileage_km |-> 180000]
\* The same listing seen again with other values and an unknown location.
RA2 == [listing_id |-> "A", title |-> "Audi A3 Sport", url |-> "/a2",
        city |-> Faial, region |-> NoneStr, seller_type |-> "Particular",
        price |-> 9000, currency |-> "USD", brand |-> "Audi A3",
        fuel |-> "Gasolina", model_year |-> 2013, mileage_km |-> 175000]
\* The same listing with every optional field missing.
RA3 == [listing_id |-> "A", title |-> None, url |-> "/a",
        city |-> NoneStr, region |-> NoneStr, seller_type |-> None,
        price |-> IntNull, currency |-> None, brand |-> None,
        fuel |-> None, model_year |-> IntNull, mileage_km |-> IntNull]
\* A listing whose URL carries no ID token: the URL is its identity.
RU1 == [listing_id |-> None, title |-> "Fiat Punto", url |-> "/u",
        city |-> Evora, region |-> NoneStr, seller_type |-> "Particular",
        price |-> 3000, currency |-> "EUR", brand |-> "Fiat",
        fuel |-> "Gasolina", model_year |-> 2005, mileage_km |-> 210000]
\* A record without identity: empty listing_id, no url.
RN  == [listing_id |-> "", title |-> "Ghost", url |-> None,
        city |-> Porto, region |-> NoneStr, seller_type |-> None,
        price |-> 1, currency |-> "EUR", brand |-> "Ghost",
        fuel |-> None, model_year |-> IntNull, mileage_km |-> IntNull]

Pool == {RA1, RA2, RA3, RU1, RN}

\* Listings stored before cars had a region_id column.
RB  == [listing_id |-> "B", title |-> "BMW 320", url |-> "/b",
        city |-> Sintra, region |-> Lisboa, seller_type |-> "Profissional",
        price |-> 8000, currency |-> "EUR", brand |-> "BMW",
        fuel |-> "Diesel", model_year |-> 2010, mileage_km |-> 200000]
RC  == [listing_id |-> "C", title |-> "Citroen C3", url |-> "/c",
        city |-> Faial, region |-> NoneStr, seller_type |-> "Particular",
        price |-> 4000, currency |-> "EUR", brand |-> "Citroen",
        fuel |-> "Gasolina", model_year |-> 2008, mileage_km |-> 150000]
LegacyPool == {RA3, RB, RC}

SeqsUpTo(S, n) == UNION { [1..k -> S] : k \in 0..n }

\* rec.get("listing_id") or rec.get("url")
KeyOf(rec) == IF Truthy(rec.listing_id) THEN rec.listing_id ELSE rec.url

\* ------------------------------------------------------------------------
\* The cars table: a set of rows
\* ------------------------------------------------------------------------
RowFrom(lid, rec, at, rid) ==
  [listing_id |-> lid, title |-> rec.title, url |-> rec.url,
   city |-> rec.city, region |-> rec.region, seller_type |-> rec.seller_type,
   price |-> rec.price, currency |-> rec.currency, brand |-> rec.brand,
   fuel |-> rec.fuel, model_year |-> rec.model_year,
   mileage_km |-> rec.mileage_km, scraped_at |-> at, region_id |-> rid]

\* Mutant: a plain INSERT, with no conflict clause and no key to stop it.
Upsert_insertOnly(tbl, lid, rec, at) == tbl \cup { RowFrom(lid, rec, at, IntNull) }

\* Mutant: the conflict clause keeps the stored title and price when the new
\* record has none (COALESCE(excluded.x, x)).
Upsert_coalesce(tbl, lid, rec, at) ==
  IF \E row \in tbl : row.listing_id = lid
    THEN { IF row.listing_id = lid
             THEN RowFrom(lid,
                          [rec EXCEPT !.title = IF rec.title = None THEN row.title ELSE rec.title,
                                      !.price = IF rec.price = IntNull THEN row.price ELSE rec.price],
                          at, row.region_id)
             ELSE row : row \in tbl }
    ELSE tbl \cup { RowFrom(lid, rec, at, IntNull) }

\* Mutant: the rows not seen at this time are deleted after the upsert (stale
\* listings are purged).
Upsert_dropStale(tbl, lid, rec, at) ==
  { row \in { IF row.listing_id = lid THEN RowFrom(lid, rec, at, row.region_id)
              ELSE row : row \in tbl } \cup
             (IF \E row \in tbl : row.listing_id = lid THEN {}
              ELSE { RowFrom(lid, rec, at, IntNull) }) :
      row.scraped_at = at }

\* INSERT ... ON CONFLICT(listing_id) DO UPDATE SET <the eleven columns> =
\* excluded.<column>, scraped_at = now.  A new row takes the column default
\* for scraped_at (now) and NULL for region_id; a conflicting row keeps its
\* region_id.
Upsert(tbl, lid, rec, at) ==
  IF \E row \in tbl : row.listing_id = lid
    THEN { IF row.listing_id = lid
             THEN RowFrom(lid, rec, at, row.region_id)
             ELSE row : row \in tbl }
    ELSE tbl \cup { RowFrom(lid, rec, at, IntNull) }

\* UPDATE cars SET region_id = ? WHERE listing_id = ?
UpdateRegionId(tbl, lid, rid) ==
  { IF row.listing_id = lid THEN [row EXCEPT !.region_id = rid] ELSE row :
      row \in tbl }

\* ------------------------------------------------------------------------
\* save_cars
\* ------------------------------------------------------------------------
\* The loop over the records from index i on, inside the open transaction.
\* It ends with the table as written so far, the count, and whether (and at
\* which record) a statement raised.
\* Mutant: the check for a missing identity is left out.
HasNoIdentity_never(lid) == FALSE

\* if not lid: continue
HasNoIdentity(lid) == ~Truthy(lid)

RECURSIVE SaveLoop(_, _, _, _, _, _, _, _)
SaveLoop(pg, regs, als, recs, i, tbl, n, at) ==
  IF i > Len(recs)
    THEN [cars |-> tbl, upserted |-> n, raised |-> FALSE, failed_at |-> 0]
    ELSE LET rec == recs[i]
             lid == KeyOf(rec)
         IN IF HasNoIdentity(lid)
              THEN SaveLoop(pg, regs, als, recs, i + 1, tbl, n, at)
              ELSE LET t1 == Upsert(tbl, lid, rec, at)
                       r  == resolve_region_id(pg, regs, als, rec.city, rec.region)
                   IN IF r.raised
                        THEN [cars |-> t1, upserted |-> n + 1,
                              raised |-> TRUE, failed_at |-> i]
                        ELSE IF r.rid # IntNull
                          THEN SaveLoop(pg, regs, als, recs, i + 1,
                                        UpdateRegionId(t1, lid, r.rid), n + 1, at)
                          ELSE SaveLoop(pg, regs, als, recs, i + 1, t1, n + 1, at)

\* Mutant: the statements run in autocommit, nothing is rolled back.
TxnResult_noRollback(before, out) == out.cars

\* "with con:" commits when the block ends normally and rolls back the
\* open transaction when it ends with an exception.
TxnResult(before, out) == IF out.raised THEN before ELSE out.cars

\* ------------------------------------------------------------------------
\* backfill_cars_region_ids
\* ------------------------------------------------------------------------
\* The rows selected by WHERE region_id IS NULL are resolved one by one; the
\* rows are independent (each UPDATE touches only its own listing_id), so the
\* order of the scan does not show in the result.
BackfillLoop(pg, regs, als, tbl) ==
  LET todo == { row \in tbl : row.region_id = IntNull }
      Res(row) == resolve_region_id(pg, regs, als, row.city, row.region)
      hit == { row \in todo : ~Res(row).raised /\ Res(row).rid # IntNull }
  IN [cars |-> { IF row \in hit THEN [row EXCEPT !.region_id = Res(row).rid]
                 ELSE row : row \in tbl },
      updated |-> Cardinality(hit),
      raised |-> \E row \in todo : Res(row).raised]

\* ------------------------------------------------------------------------
\* _normalize_and_dedupe
\* ------------------------------------------------------------------------
\* r["price"] = to_int(r.get("price")), and so for model_year and
\* mileage_km.
Normalized(r) ==
  [r EXCEPT !.price = Untag(to_int(Tag(r.price)).value),
            !.model_year = Untag(to_int(Tag(r.model_year)).value),
            !.mileage_km = Untag(to_int(Tag(r.mileage_km)).value)]

RECURSIVE DedupeLoop(_, _, _)
DedupeLoop(records, seen, cleaned) ==
  IF records = <<>> THEN cleaned
  ELSE LET r == Head(records)
           key == KeyOf(r)
       IN IF ~Truthy(key) \/ key \in seen
            THEN DedupeLoop(Tail(records), seen, cleaned)
            ELSE DedupeLoop(Tail(records), seen \cup {key},
                            Append(cleaned, Normalized(r)))

\* Mutant: the records with a key are normalized, none is dropped as a
\* duplicate.
_normalize_and_dedupe_keepDups(records) ==
  [i \in 1..Len(SelectSeq(records, LAMBDA r : Truthy(KeyOf(r)))) |->
     Normalized(SelectSeq(records, LAMBDA r : Truthy(KeyOf(r)))[i])]

_normalize_and_dedupe(records) == DedupeLoop(records, {}, <<>>)

\* ------------------------------------------------------------------------
\* State
\* ------------------------------------------------------------------------
VARIABLES
  isPG,            \* IS_PG: the storage backend chosen by DATABASE_URL
  regions,         \* table regions, in storage order
  region_aliases,  \* table region_aliases, in storage order
  cars,            \* table cars
  now,             \* the database clock
  call,            \* the last save_cars / backfill call and how it ended
  lastUpsert,      \* per listing_id, the record and time of its last committed upsert
  probe,           \* the last call of a pure function and its result
  pc,              \* run_scrape: position in the function
  total_pages,     \* run_scrape: int(pages)
  p,               \* run_scrape: loop variable
  html,            \* run_scrape: the page just fetched, as the cards it holds
  recs,            \* run_scrape: parse_page(html)
  all_recs,        \* run_scrape: the in-memory batch
  pages_fetched,   \* run_scrape: counter
  events,          \* run_scrape: what the run did so far, in order
  outcome,         \* run_scrape: the summary returned or the exception raised
  cars_at_start,   \* run_scrape: table cars when the run was called
  parsed,          \* run_scrape: the number of cards of each page parsed so far
  txns,            \* per concurrent save_cars call: its open transaction
  lock,            \* SQLite: the connection holding the database write lock, or 0
  commits          \* the concurrent save_cars calls that committed, in commit order

concVars  == <<txns, lock, commits>>
storeVars == <<isPG, regions, region_aliases, cars, now, call, lastUpsert, concVars>>
runVars   == <<pc, total_pages, p, html, recs, all_recs, pages_fetched, events, outcome,
               cars_at_start, parsed>>
vars      == <<storeVars, probe, runVars>>

NoCall == [op |-> "none", args |-> <<>>, raised |-> FALSE, value |-> 0,
           failed_at |-> 0, again |-> FALSE]
NoProbe == [fn |-> "none", seeded |-> FALSE, city |-> NoneStr, region |-> NoneStr,
            raised |-> FALSE, rid |-> IntNull]
NoOutcome == [kind |-> "none", pages_fetched |-> 0, raw_records |-> 0,
              cleaned_records |-> 0, upserted |-> 0]

\* Two save_cars calls that overlap in time, each on its own connection.
Writers == {1, 2}
NoTxn == [st |-> "idle", recs |-> <<>>, i |-> 1, began |-> IntNull,
          pending |-> {}, wrote |-> {}, n |-> 0]

\* The cards a fetched page can hold.
PagePool == {RA1, RA2, RN}
Pages == SeqsUpTo(PagePool, MaxCards)

\* A fresh SQLite file has empty tables; a Postgres database is created with
\* its reference tables already seeded (with the same rows).
Init ==
  /\ isPG \in BOOLEAN
  /\ regions = IF isPG THEN SeededRegions ELSE <<>>
  /\ region_aliases = IF isPG THEN SeededAliases ELSE <<>>
  /\ cars = {}
  /\ now = 0
  /\ call = NoCall
  /\ lastUpsert = {}
  /\ probe = NoProbe
  /\ pc = "idle"
  /\ total_pages = 0
  /\ p = 0
  /\ html = <<>>
  /\ recs = <<>>
  /\ all_recs = <<>>
  /\ pages_fetched = 0
  /\ events = <<>>
  /\ outcome = NoOutcome
  /\ cars_at_start = {}
  /\ parsed = <<>>
  /\ txns = [w \in Writers |-> NoTxn]
  /\ lock = 0
  /\ commits = <<>>

\* A database first written before region resolution existed: cars holds
\* rows, _ensure_region_column has added region_id to them as NULL, and the
\* reference tables are as the schema scripts leave them.
InitLegacy ==
  /\ isPG \in BOOLEAN
  /\ regions = IF isPG THEN SeededRegions ELSE <<>>
  /\ region_aliases = IF isPG THEN SeededAliases ELSE <<>>
  /\ \E old \in SUBSET LegacyPool :
       /\ cars = { RowFrom(KeyOf(r), r, 0, IntNull) : r \in old }
       /\ lastUpsert = { [key |-> KeyOf(r), rec |-> r, at |-> 0] : r \in old }
  /\ now = 0
  /\ call = NoCall
  /\ probe = NoProbe
  /\ pc = "idle"
  /\ total_pages = 0
  /\ p = 0
  /\ html = <<>>
  /\ recs = <<>>
  /\ all_recs = <<>>
  /\ pages_fetched = 0
  /\ events = <<>>
  /\ outcome = NoOutcome
  /\ cars_at_start = {}
  /\ parsed = <<>>
  /\ txns = [w \in Writers |-> NoTxn]
  /\ lock = 0
  /\ commits = <<>>

\* ------------------------------------------------------------------------
\* Store operations
\* ------------------------------------------------------------------------
Tick ==
  /\ now < MaxClock
  /\ now' = now + 1
  /\ UNCHANGED <<isPG, regions, region_aliases, cars, call, lastUpsert, concVars, probe,
                 runVars>>

Keys(records) == { KeyOf(records[i]) : i \in { j \in 1..Len(records) : Truthy(KeyOf(records[j])) } }

\* The last record of the list with the given key.
LastWith(records, k) ==
  records[CHOOSE i \in 1..Len(records) :
            /\ KeyOf(records[i]) = k
            /\ \A j \in (i + 1)..Len(records) : KeyOf(records[j]) # k]

\* What a call save_cars(records) does to the store, whoever makes it.
SaveCarsEffect(records) ==
  LET seeded == _seed_districts(isPG, regions, region_aliases)
      regs == seeded.regions
      als  == seeded.region_aliases
      out  == SaveLoop(isPG, regs, als, records, 1, cars, 0, now)
  IN /\ regions' = regs
     /\ region_aliases' = als
     /\ cars' = TxnResult(cars, out)
     /\ call' = [op |-> "save_cars", args |-> records, raised |-> out.raised,
                 value |-> IF out.raised THEN 0 ELSE out.upserted,
                 failed_at |-> out.failed_at,
                 again |-> call.op = "save_cars" /\ call.args = records]
     /\ lastUpsert' =
          IF out.raised THEN lastUpsert
          ELSE { e \in lastUpsert : e.key \notin Keys(records) }
               \cup { [key |-> k, rec |-> LastWith(records, k), at |-> now] :
                        k \in Keys(records) }
     /\ UNCHANGED <<isPG, now, concVars>>

Idle == pc \in {"idle", "done", "aborted"}

\* A direct call of save_cars.
SaveCars(records) ==
  /\ Idle
  /\ SaveCarsEffect(records)
  /\ UNCHANGED <<probe, runVars>>

\* A call of backfill_cars_region_ids.
Backfill ==
  /\ Idle
  /\ LET out == BackfillLoop(isPG, regions, region_aliases, cars)
     IN /\ cars' = TxnResult(cars, out)
        /\ call' = [op |-> "backfill", args |-> <<>>, raised |-> out.raised,
                    value |-> IF out.raised THEN 0 ELSE out.updated,
                    failed_at |-> 0, again |-> call.op = "backfill"]
  /\ UNCHANGED <<isPG, regions, region_aliases, now, lastUpsert, concVars, probe, runVars>>

\* ------------------------------------------------------------------------
\* Overlapping save_cars calls, one step per statement group
\* ------------------------------------------------------------------------
\* The records of the overlapping calls.
ConcPool == {RA1, RA2, RA3, RU1}

\* The table a transaction sees: the committed rows, its own writes on top.
Overlay(tbl, pending) ==
  { row \in tbl : row.listing_id \notin { q.listing_id : q \in pending } } \cup pending

\* The statement of writer w on listing lid has to wait.  SQLite has one
\* write lock for the database file; Postgres locks the row (or the key
\* being inserted) until the transaction that wrote it ends.
Blocked(w, lid) ==
  IF isPG
    THEN \E v \in Writers \ {w} :
           txns[v].st = "open" /\ lid \in { q.listing_id : q \in txns[v].pending }
    ELSE lock \notin {0, w}

\* The key the next statement of w writes, None when there is none.
NextKey(w) ==
  IF txns[w].st = "open" /\ txns[w].i <= Len(txns[w].recs)
       /\ ~HasNoIdentity(KeyOf(txns[w].recs[txns[w].i]))
    THEN KeyOf(txns[w].recs[txns[w].i])
    ELSE None

Waiting(w) == NextKey(w) # None /\ Blocked(w, NextKey(w))

\* The call: connect, and on SQLite the seeding script, which takes the
\* write lock for as long as it runs.
Begin(w, records) ==
  /\ Idle
  /\ txns[w].st = "idle"
  /\ isPG \/ lock = 0
  /\ LET seeded == _seed_districts(isPG, regions, region_aliases)
     IN /\ regions' = seeded.regions
        /\ region_aliases' = seeded.region_aliases
  /\ txns' = [txns EXCEPT ![w] = [NoTxn EXCEPT !.st = "open", !.recs = records]]
  /\ UNCHANGED <<isPG, cars, now, call, lastUpsert, lock, commits, probe, runVars>>

\* One iteration of the loop of save_cars: the upsert, the resolution and
\* the UPDATE of region_id.  NOW() is the start of the transaction on
\* Postgres, datetime('now') the time of the statement on SQLite.  An
\* exception ends the call and rolls its transaction back.
Step(w) ==
  /\ txns[w].st = "open"
  /\ txns[w].i <= Len(txns[w].recs)
  /\ ~Waiting(w)
  /\ LET t   == txns[w]
         rec == t.recs[t.i]
         lid == KeyOf(rec)
     IN IF HasNoIdentity(lid)
          THEN /\ txns' = [txns EXCEPT ![w].i = t.i + 1]
               /\ UNCHANGED lock
          ELSE LET began == IF t.began = IntNull THEN now ELSE t.began
                   at == IF isPG THEN began ELSE now
                   t1 == Upsert(Overlay(cars, t.pending), lid, rec, at)
                   r  == resolve_region_id(isPG, regions, region_aliases,
                                           rec.city, rec.region)
                   t2 == IF r.rid # IntNull THEN UpdateRegionId(t1, lid, r.rid) ELSE t1
                   row == CHOOSE q \in t2 : q.listing_id = lid
               IN IF r.raised
                    THEN /\ txns' = [txns EXCEPT ![w] =
                                       [t EXCEPT !.st = "failed", !.pending = {}]]
                         /\ lock' = 0
                    ELSE /\ txns' = [txns EXCEPT ![w] =
                              [t EXCEPT
                                 !.i = t.i + 1, !.began = began, !.n = t.n + 1,
                                 !.pending = { q \in t.pending : q.listing_id # lid }
                                               \cup {row},
                                 !.wrote = { e \in t.wrote : e.key # lid }
                                             \cup {[key |-> lid, rec |-> rec, at |-> at]}]]
                         /\ lock' = IF isPG THEN lock ELSE w
  /\ UNCHANGED <<isPG, regions, region_aliases, cars, now, call, lastUpsert, commits,
                 probe, runVars>>

\* The end of the with block: COMMIT.
Commit(w) ==
  /\ txns[w].st = "open"
  /\ txns[w].i > Len(txns[w].recs)
  /\ cars' = Overlay(cars, txns[w].pending)
  /\ txns' = [txns EXCEPT ![w].st = "committed", ![w].pending = {}]
  /\ lock' = IF lock = w THEN 0 ELSE lock
  /\ commits' = Append(commits, w)
  /\ lastUpsert' = { e \in lastUpsert : e.key \notin { x.key : x \in txns[w].wrote } }
                     \cup txns[w].wrote
  /\ UNCHANGED <<isPG, regions, region_aliases, now, call, probe, runVars>>

\* SQLite: the wait for the write lock runs out (sqlite3's timeout) and the
\* statement raises "database is locked".
BusyTimeout(w) ==
  /\ ~isPG
  /\ Waiting(w)
  /\ txns' = [txns EXCEPT ![w].st = "failed", ![w].pending = {}]
  /\ UNCHANGED <<isPG, regions, region_aliases, cars, now, call, lastUpsert, lock, commits,
                 probe, runVars>>

\* Postgres: two transactions wait for each other's row; the server ends one
\* of them with a deadlock error.
DeadlockAbort(w) ==
  /\ isPG
  /\ Waiting(w)
  /\ \E v \in Writers \ {w} : Waiting(v)
  /\ txns' = [txns EXCEPT ![w].st = "failed", ![w].pending = {}]
  /\ UNCHANGED <<isPG, regions, region_aliases, cars, now, call, lastUpsert, lock, commits,
                 probe, runVars>>

\* ------------------------------------------------------------------------
\* run_scrape, one step per statement of its body
\* ------------------------------------------------------------------------
\* for p in range(1, total_pages + 1): where the loop goes with loop
\* variable q.
LoopHead(q, total) == IF q <= total THEN "fetch" ELSE "persist"

\* Mutant: the delay is taken at the top of the loop body, before the fetch.
StartRun_sleepFirst(pages) ==
  /\ Idle
  /\ total_pages' = pages
  /\ p' = 0
  /\ pc' = "sleep"
  /\ html' = <<>>
  /\ recs' = <<>>
  /\ all_recs' = <<>>
  /\ pages_fetched' = 0
  /\ events' = <<>>
  /\ outcome' = NoOutcome
  /\ cars_at_start' = cars
  /\ parsed' = <<>>
  /\ UNCHANGED <<storeVars, probe>>

\* The call: all_recs = [], pages_fetched = 0, total_pages = int(pages).
StartRun(pages) ==
  /\ Idle
  /\ total_pages' = pages
  /\ p' = 1
  /\ pc' = LoopHead(1, pages)
  /\ html' = <<>>
  /\ recs' = <<>>
  /\ all_recs' = <<>>
  /\ pages_fetched' = 0
  /\ events' = <<>>
  /\ outcome' = NoOutcome
  /\ cars_at_start' = cars
  /\ parsed' = <<>>
  /\ UNCHANGED <<storeVars, probe>>

\* html = fetch_html(max_price, page=p) returns the page.
FetchOk(page) ==
  /\ pc = "fetch"
  /\ html' = page
  /\ events' = Append(events, <<"fetch", p>>)
  /\ pc' = "parse"
  /\ UNCHANGED <<storeVars, probe, total_pages, p, recs, all_recs, pages_fetched, outcome,
                 cars_at_start, parsed>>

\* Mutant: the batch collected so far is saved before the exception leaves
\* (a try/finally around the loop).
FetchFail_thenPersist ==
  /\ pc = "fetch"
  /\ SaveCarsEffect(_normalize_and_dedupe(all_recs))
  /\ events' = Append(events, <<"fetch_failed", p>>)
  /\ pc' = "aborted"
  /\ outcome' = [NoOutcome EXCEPT !.kind = "fetch_error"]
  /\ UNCHANGED <<probe, total_pages, p, html, recs, all_recs, pages_fetched,
                 cars_at_start, parsed>>

\* fetch_html raises (transport error, or raise_for_status on a non-2xx
\* answer); nothing in run_scrape catches it.
FetchFail ==
  /\ pc = "fetch"
  /\ events' = Append(events, <<"fetch_failed", p>>)
  /\ pc' = "aborted"
  /\ outcome' = [NoOutcome EXCEPT !.kind = "fetch_error"]
  /\ UNCHANGED <<storeVars, probe, total_pages, p, html, recs, all_recs, pages_fetched,
                 cars_at_start, parsed>>

\* The page's markup is represented by the cards it holds, so parsing hands
\* back those cards' records.
parse_page(page) == page

\* Mutant: the callback is not called.
Parse_noProgress ==
  /\ pc = "parse"
  /\ recs' = parse_page(html)
  /\ parsed' = Append(parsed, Len(parse_page(html)))
  /\ events' = Append(events, <<"parse", p>>)
  /\ pc' = "check"
  /\ UNCHANGED <<storeVars, probe, total_pages, p, html, all_recs, pages_fetched, outcome,
                 cars_at_start>>

\* recs = parse_page(html)
Parse ==
  /\ pc = "parse"
  /\ recs' = parse_page(html)
  /\ parsed' = Append(parsed, Len(parse_page(html)))
  /\ events' = Append(events, <<"parse", p>>)
  /\ pc' = "progress"
  /\ UNCHANGED <<storeVars, probe, total_pages, p, html, all_recs, pages_fetched, outcome,
                 cars_at_start>>

\* on_progress(p, total_pages)
Progress ==
  /\ pc = "progress"
  /\ events' = Append(events, <<"progress", p>>)
  /\ pc' = "check"
  /\ UNCHANGED <<storeVars, probe, total_pages, p, html, recs, all_recs, pages_fetched, outcome,
                 cars_at_start, parsed>>

\* if not recs: break
BreakOnEmpty ==
  /\ pc = "check"
  /\ recs = <<>>
  /\ pc' = "persist"
  /\ UNCHANGED <<storeVars, probe, total_pages, p, html, recs, all_recs, pages_fetched,
                 events, outcome, cars_at_start, parsed>>

\* all_recs.extend(recs); pages_fetched += 1
Accumulate ==
  /\ pc = "check"
  /\ recs # <<>>
  /\ all_recs' = all_recs \o recs
  /\ pages_fetched' = pages_fetched + 1
  /\ pc' = "sleep"
  /\ UNCHANGED <<storeVars, probe, total_pages, p, html, recs, events, outcome,
                 cars_at_start, parsed>>

\* time.sleep(random.uniform(*polite_delay)), then the next iteration.
Sleep ==
  /\ pc = "sleep"
  /\ events' = Append(events, <<"sleep", p>>)
  /\ p' = p + 1
  /\ pc' = LoopHead(p + 1, total_pages)
  /\ UNCHANGED <<storeVars, probe, total_pages, html, recs, all_recs, pages_fetched, outcome,
                 cars_at_start, parsed>>

\* cleaned = _normalize_and_dedupe(all_recs); upserted = save_cars(cleaned);
\* return the summary.  An exception of save_cars leaves run_scrape uncaught.
Persist ==
  /\ pc = "persist"
  /\ LET cleaned == _normalize_and_dedupe(all_recs)
     IN /\ SaveCarsEffect(cleaned)
        /\ events' = Append(events, <<"persist", Len(cleaned)>>)
        /\ pc' = IF call'.raised THEN "aborted" ELSE "done"
        /\ outcome' =
             IF call'.raised THEN [NoOutcome EXCEPT !.kind = "save_error"]
             ELSE [kind |-> "summary", pages_fetched |-> pages_fetched,
                   raw_records |-> Len(all_recs),
                   cleaned_records |-> Len(cleaned),
                   upserted |-> call'.value]
  /\ UNCHANGED <<probe, total_pages, p, html, recs, all_recs, pages_fetched, cars_at_start,
                 parsed>>

\* ------------------------------------------------------------------------
\* Calls of the pure functions
\* ------------------------------------------------------------------------
CityValues ==
  { NoneStr, <<>>, <<" ">>, Evora, Evora_, Braganca, Braganca_,
    <<"B","R","A","G","A","N","C,","A">>, Santarem_, Setubal_,
    <<" ","F","a","r","o"," ">>, Faial,
    <<"P","o","r","t","o"," ","S","a","l","v","o">>, Vila_Real,
    <<"E'","v","o","r","a"," ","S","u","l">> }
RegionValues == { NoneStr, <<>>, <<" ">>, Lisboa, Evora_ }

\* resolve_region_id(con, city, region) on the store as it is.
Resolve(city, region) ==
  /\ LET r == resolve_region_id(isPG, regions, region_aliases, city, region)
     IN probe' = [fn |-> "resolve_region_id",
                  seeded |-> regions = SeededRegions /\ region_aliases = SeededAliases,
                  city |-> city, region |-> region,
                  raised |-> r.raised, rid |-> r.rid,
                  queries |-> QueriesRun(isPG, regions, region_aliases, city, region)]
  /\ UNCHANGED <<storeVars, runVars>>

\* The reference tables are put in place by the first save_cars.
Seed == SaveCars(<<>>)

\* The texts of numeric fields: every short text over a few characters, and
\* the longer texts of a price and a mileage element ("EUR" stands for the
\* one character of the euro sign, "NBSP" for the no-break space U+00A0).
TextAlphabet == {"0", "1", "2", " ", ".", "-", "_", "k"}
PriceText    == <<"1","2"," ","3","4","5"," ","EUR">>
MileageText  == <<"1","8","0",".","0","0","0"," ","k","m">>
FromText     == <<"d","e","s","d","e"," ","9",".","5","0","0"," ","EUR">>
NbspMileageText == <<"1","8","0","NBSP","0","0","0"," ","k","m">>
SpaceMileageText == <<"1","8","0"," ","0","0","0"," ","k","m">>
Texts == SeqsUpTo(TextAlphabet, MaxText)
           \cup {PriceText, MileageText, FromText, NbspMileageText, SpaceMileageText}
TextArgs  == {PyNone} \cup { PyStrV(t) : t \in Texts }
ValueArgs == TextArgs \cup { PyIntV(n) : n \in {0, 7, 2012, 12345, 180000, 0 - 5} }

\* The functions are pure, so a behaviour makes one call of one of them.
\* The extraction of a price or mileage text, and what _normalize_and_dedupe
\* then makes of the value.
ExtractInt(text) ==
  /\ probe = NoProbe
  /\ LET out == extract_int(text)
     IN probe' = [fn |-> "extract_int", arg |-> text, out |-> out,
                  kept |-> IF out.raised THEN Escaped ELSE to_int(out.value)]
  /\ UNCHANGED <<storeVars, runVars>>

\* _to_int(text)
ToIntText(text) ==
  /\ probe = NoProbe
  /\ probe' = [fn |-> "_to_int", arg |-> text, out |-> _to_int(text)]
  /\ UNCHANGED <<storeVars, runVars>>

\* to_int(x) of _normalize_and_dedupe
ToInt(x) ==
  /\ probe = NoProbe
  /\ probe' = [fn |-> "to_int", arg |-> x, out |-> to_int(x)]
  /\ UNCHANGED <<storeVars, runVars>>

\* The listing hrefs of the model, each written <prefix>ID<token>.html, and
\* two hrefs that are no listing.
ListingUrls ==
  { [prefix |-> ListingPath \o <<"a","u","d","i","-","a","3","-">>, token |-> <<"8","P","q">>],
    [prefix |-> ListingPath \o <<"f","i","a","t","-","i","d","e","a","-">>, token |-> <<"7","x">>],
    [prefix |-> ListingPath \o <<"v","w","-","I","D","-","b","u","z","z","-">>,
     token |-> <<"4","w">>],
    [prefix |-> BASE \o ListingPath \o <<"b","m","w","-">>, token |-> <<"5","k">>] }
Href(pr) == pr.prefix \o <<"I","D">> \o pr.token \o DotHtml
PromoHref == <<"/","p","r","o","m","o">>
NoIdHref  == ListingPath \o <<"s","e","a","t","-","i","b","i","z","a",".","h","t","m","l">>
HrefPool  == { Href(pr) : pr \in ListingUrls } \cup {PromoHref, NoIdHref}
AudiHref  == Href(CHOOSE pr \in ListingUrls : pr.token = <<"8","P","q">>)

\* Articles that differ in their links only.
LinkArts == { Art(links, <<>>, <<>>) : links \in SeqsUpTo(HrefPool, 2) }
TileArts ==
  { Art(links, <<>>, <<>>) :
      links \in { <<>>, <<PromoHref>>, <<AudiHref>>, <<PromoHref, AudiHref>>,
                  <<AudiHref, PromoHref>> } }
Soups == { [container |-> c, articles |-> arts] :
             c \in BOOLEAN, arts \in SeqsUpTo(TileArts, MaxCards) }

\* _find_result_cards(soup)
FindResultCards(soup) ==
  /\ probe = NoProbe
  /\ probe' = [fn |-> "_find_result_cards", arg |-> soup,
               out |-> _find_result_cards(soup)]
  /\ UNCHANGED <<storeVars, runVars>>

\* _extract_url_and_id(art)
ExtractUrlAndId(art) ==
  /\ probe = NoProbe
  /\ probe' = [fn |-> "_extract_url_and_id", arg |-> art,
               out |-> _extract_url_and_id(art)]
  /\ UNCHANGED <<storeVars, runVars>>

\* Headings of the model: a title with a model number, as h2 and as h3, a
\* title without digits, and prices with and without a currency sibling.
HeadingPool ==
  { Heading("h2", <<"A","u","d","i"," ","A","3">>, NoneStr),
    Heading("h3", <<"A","u","d","i"," ","A","3">>, NoneStr),
    Heading("h3", <<"F","i","a","t"," ","P","u","n","t","o">>, NoneStr),
    Heading("h3", <<"1","2"," ","3","4","5">>, EUR),
    Heading("h3", <<" ","9",".","5","0","0"," ">>, NoneStr),
    Heading("h3", <<"3","0","0","0">>, <<>>) }
PriceArts == { Art(<<>>, hs, <<>>) : hs \in SeqsUpTo(HeadingPool, 2) }

\* _extract_price_currency(art)
ExtractPriceCurrency(art) ==
  /\ probe = NoProbe
  /\ probe' = [fn |-> "_extract_price_currency", arg |-> art,
               out |-> _extract_price_currency(art)]
  /\ UNCHANGED <<storeVars, runVars>>

\* The <p> texts of a location and seller block, and the articles with no,
\* one and two <dl> blocks.
BlockTexts ==
  { <<"S","i","n","t","r","a"," ","(","L","i","s","b","o","a",")">>,
    Faro,
    <<"P","o","r","t","o"," ","(","N","o","r","t","e">>,
    <<" ","V","e","n","d","e","d","o","r"," ",
      "P","r","o","f","i","s","s","i","o","n","a","l"," ">>,
    Particular,
    <<"S","t","a","n","d">> }
SellerArts ==
  { Art(<<>>, <<>>, <<>>), Art(<<>>, <<>>, << <<Faro>> >>) }
  \cup { Art(<<>>, <<>>, << <<>>, ps >>) : ps \in SeqsUpTo(BlockTexts, 2) }

\* _extract_location_and_seller(art)
ExtractLocationAndSeller(art) ==
  /\ probe = NoProbe
  /\ probe' = [fn |-> "_extract_location_and_seller", arg |-> art,
               out |-> _extract_location_and_seller(art)]
  /\ UNCHANGED <<storeVars, runVars>>

\* Titles: None, the empty and whitespace-only texts, and texts that start
\* with a listed brand, with a word that a listed brand starts, or with
\* neither.
Titles ==
  { NoneStr, <<>>,
    <<" ">>,
    <<" "," ">>,
    <<"A","u","d","i"," ","A","3">>,
    <<" ","A","u","d","i"," ","A","3">>,
    <<"A","L","F","A"," ","R","O","M","E","O"," ","1","4","7">>,
    <<"A","l","f","a"," ","R","o","m","e","o">>,
    <<"M","e","r","c","e","d","e","s","-","B","e","n","z"," ","C","2","2","0">>,
    <<"M","e","r","c","e","d","e","s"," ","B","e","n","z"," ","C">>,
    <<"M","i","n","i"," ","C","o","o","p","e","r">>,
    <<"M","i","n","i","v","a","n"," ","X">>,
    <<"D","S"," ","7">>,
    <<"C","i","t","r","o","e:","n"," ","C","3">>,
    <<"L","a","n","d"," ","R","o","v","e","r">>,
    <<"V","W"," ","G","o","l","f">>,
    <<"S","e","a","t">>,
    <<"T","e","s","l","a"," ","3">> }

\* _extract_title(art)
ExtractTitle(art) ==
  /\ probe = NoProbe
  /\ probe' = [fn |-> "_extract_title", arg |-> art, out |-> _extract_title(art)]
  /\ UNCHANGED <<storeVars, runVars>>

\* _extract_brand_from_title(title)
ExtractBrand(title) ==
  /\ probe = NoProbe
  /\ probe' = [fn |-> "_extract_brand_from_title", arg |-> title,
               out |-> _extract_brand_from_title(title)]
  /\ UNCHANGED <<storeVars, runVars>>

\* ------------------------------------------------------------------------
\* Specifications
\* ------------------------------------------------------------------------
\* The store under direct calls.
NextStore ==
  \/ Tick
  \/ \E records \in SeqsUpTo(Pool, MaxBatch) : SaveCars(records)
  \/ Backfill

SpecStore == Init /\ [][NextStore]_vars

\* The store under scrape runs.
NextRun ==
  \/ Tick
  \/ \E pages \in 0..MaxPages : StartRun(pages)
  \/ \E page \in Pages : FetchOk(page)
  \/ FetchFail
  \/ Parse
  \/ Progress
  \/ BreakOnEmpty
  \/ Accumulate
  \/ Sleep
  \/ Persist

SpecRun == Init /\ [][NextRun]_vars

\* The resolver on the seeded reference data.
NextResolve ==
  \/ Seed
  \/ \E city \in CityValues, region \in RegionValues : Resolve(city, region)

SpecResolve == Init /\ [][NextResolve]_vars

\* The store of a database that holds rows without region_id.
NextLegacy ==
  \/ Tick
  \/ \E rec \in Pool : SaveCars(<<rec>>)
  \/ Seed
  \/ Backfill

SpecLegacy == InitLegacy /\ [][NextLegacy]_vars

\* Two overlapping save_cars calls.
NextConc ==
  \/ Tick
  \/ \E w \in Writers, records \in SeqsUpTo(ConcPool, MaxBatch) : Begin(w, records)
  \/ \E w \in Writers : Step(w)
  \/ \E w \in Writers : Commit(w)
  \/ \E w \in Writers : BusyTimeout(w)
  \/ \E w \in Writers : DeadlockAbort(w)

SpecConc == Init /\ [][NextConc]_vars

\* The numeric coercions on enumerated inputs.
NextNorm ==
  \/ \E text \in TextArgs : ExtractInt(text)
  \/ \E text \in TextArgs : ToIntText(text)
  \/ \E x \in ValueArgs : ToInt(x)

SpecNorm == Init /\ [][NextNorm]_vars

\* The extractors of a card on enumerated articles.
NextCards ==
  \/ \E soup \in Soups : FindResultCards(soup)
  \/ \E art \in LinkArts : ExtractUrlAndId(art)
  \/ \E art \in PriceArts : ExtractPriceCurrency(art)
  \/ \E art \in SellerArts : ExtractLocationAndSeller(art)
  \/ \E art \in PriceArts : ExtractTitle(art)
  \/ \E title \in Titles : ExtractBrand(title)

SpecCards == Init /\ [][NextCards]_vars

\* ------------------------------------------------------------------------
\* Properties of the store (SpecStore)
\* ------------------------------------------------------------------------
ButScrapedAt(tbl) == { [row EXCEPT !.scraped_at = 0] : row \in tbl }
ListingIds(tbl) == { row.listing_id : row \in tbl }

\* C1: a save_cars call with the same record list as the save_cars call right
\* before it leaves the set of listing_ids (and the row count) and every
\* column other than scraped_at, region_id included, as the first call left
\* them.
C1_SecondCallChangesOnlyScrapedAt ==
  [][ (call'.op = "save_cars" /\ call'.again) =>
        /\ ListingIds(cars') = ListingIds(cars)
        /\ Cardinality(cars') = Cardinality(cars)
        /\ ButScrapedAt(cars') = ButScrapedAt(cars) ]_vars

\* C1 witness: a committed second call with the same list, which holds two
\* records of one listing, made after the clock moved.
C1_Witness ==
  /\ call.op = "save_cars" /\ call.again /\ ~call.raised
  /\ call.args = <<RA1, RA3>>
  /\ \E row \in cars : row.listing_id = "A" /\ row.scraped_at = MaxClock

\* C2: cars holds at most one row per listing_id, and each row carries the
\* eleven columns of the record last upserted under its key by a committed
\* call, and the time of that upsert.
C2_LastWriteWins ==
  /\ \A r1, r2 \in cars : r1.listing_id = r2.listing_id => r1 = r2
  /\ \A row \in cars :
       \E e \in lastUpsert :
         /\ e.key = row.listing_id
         /\ row.title = e.rec.title /\ row.url = e.rec.url
         /\ row.city = e.rec.city /\ row.region = e.rec.region
         /\ row.seller_type = e.rec.seller_type /\ row.price = e.rec.price
         /\ row.currency = e.rec.currency /\ row.brand = e.rec.brand
         /\ row.fuel = e.rec.fuel /\ row.model_year = e.rec.model_year
         /\ row.mileage_km = e.rec.mileage_km
         /\ row.scraped_at = e.at

\* C2 witness: the row of listing A was written from RA1 (it resolved to a
\* district) and then overwritten, later, from the record with no values.
C2_Witness ==
  \E row \in cars :
    /\ row.listing_id = "A" /\ row.title = None /\ row.price = IntNull
    /\ row.region_id # IntNull /\ row.scraped_at = MaxClock

\* C4: a record with neither listing_id nor url gives no row, is not counted
\* in what save_cars returns, and is not in what _normalize_and_dedupe makes
\* of the same list.
C4_NoIdentityNoRow ==
  /\ \A row \in cars :
       /\ Truthy(row.listing_id)
       /\ \E r \in Pool : Truthy(KeyOf(r)) /\ row.listing_id = KeyOf(r) /\ row.title = r.title
  /\ (call.op = "save_cars" /\ ~call.raised) =>
       call.value = Cardinality({ i \in 1..Len(call.args) : Truthy(KeyOf(call.args[i])) })
  /\ LET out == _normalize_and_dedupe(call.args)
     IN \A i \in 1..Len(out) : Truthy(KeyOf(out[i]))

\* C4 witness: a committed call whose list holds a record without identity
\* and a record with one.
C4_Witness ==
  /\ call.op = "save_cars" /\ ~call.raised /\ call.value = 1
  /\ \E i \in 1..Len(call.args) : call.args[i] = RN
  /\ cars # {}

\* C7: a save_cars call that raises leaves cars as it was before the call.
C7_RaiseRollsBack ==
  [][ (call'.op = "save_cars" /\ call'.raised) => cars' = cars ]_vars

\* C7 witness: the call raised at its second record, after the first record
\* had been written to a table that held no row for it; no such row is left.
C7_Witness ==
  /\ call.op = "save_cars" /\ call.raised /\ call.failed_at = 2
  /\ Truthy(KeyOf(call.args[1]))
  /\ KeyOf(call.args[1]) \notin ListingIds(cars)

\* The row of a listing_id in a table.
RowOf(tbl, k) == CHOOSE row \in tbl : row.listing_id = k

\* C15 (as claimed): a backfill_cars_region_ids call creates and deletes no row, changes
\* no column but region_id, changes region_id only where it was NULL,
\* leaves regions and region_aliases alone, and returns the number of rows
\* whose region_id went from NULL to a value.
C15_BackfillWritesOnlyNullRegionIds ==
  [][ Backfill =>
        /\ ListingIds(cars') = ListingIds(cars)
        /\ Cardinality(cars') = Cardinality(cars)
        /\ \A row \in cars :
             /\ RowOf(cars', row.listing_id) =
                  [row EXCEPT !.region_id = RowOf(cars', row.listing_id).region_id]
             /\ row.region_id # IntNull =>
                  RowOf(cars', row.listing_id).region_id = row.region_id
        /\ regions' = regions /\ region_aliases' = region_aliases
        /\ ~call'.raised
        /\ call'.value =
             Cardinality({ row \in cars :
                             /\ row.region_id = IntNull
                             /\ RowOf(cars', row.listing_id).region_id # IntNull }) ]_vars

\* C30 (as claimed): a backfill_cars_region_ids call that follows another
\* one, with no save_cars call in between, returns 0 and changes no row;
\* and after a backfill call every row whose region_id is still NULL has a
\* city and region that resolve to None.
C30_SecondBackfillIsNoOp ==
  /\ [][ (Backfill /\ call.op = "backfill") =>
           (~call'.raised /\ call'.value = 0 /\ cars' = cars) ]_vars
  /\ [](call.op = "backfill" =>
          \A row \in cars :
            row.region_id = IntNull =>
              resolve_region_id(isPG, regions, region_aliases, row.city, row.region)
                = Found(IntNull))

\* C16: no step of save_cars or backfill_cars_region_ids takes a listing_id
\* out of cars.
C16_RowsNeverDeleted ==
  [][ ListingIds(cars) \subseteq ListingIds(cars') ]_vars

\* C16 witness: a committed save_cars whose list does not name a listing
\* that an earlier call stored; its row is still there.
C16_Witness ==
  /\ call.op = "save_cars" /\ ~call.raised /\ call.value >= 1
  /\ \E k \in ListingIds(cars) : k \notin Keys(call.args)

\* C19 (as claimed): a row whose last committed upsert carried a city and
\* region that resolve to no district has no region_id, whatever region_id
\* an earlier upsert of the listing had left.
C19_RegionIdOverwritten ==
  \A row \in cars :
    \A e \in lastUpsert :
      ( /\ e.key = row.listing_id
        /\ resolve_region_id(isPG, regions, region_aliases, e.rec.city, e.rec.region)
             = Found(IntNull) )
      => row.region_id = IntNull

ProbeCand == Candidate(probe.city, probe.region)
ProbedSeeded == probe.fn = "resolve_region_id" /\ probe.seeded

\* C9: on the seeded tables, a candidate equal to an alias ignoring case
\* resolves to that alias' district, whatever its slug contains; and with no
\* alias hit, a candidate that the name query matches resolves to that
\* district.
C9_AliasThenNameThenSlug ==
  ProbedSeeded =>
    LET aliasOf == { j \in 1..Len(SeededAliases) :
                       PyLower(SeededAliases[j].alias) = PyLower(ProbeCand) }
        nameOf == { i \in 1..Len(SeededRegions) :
                      DbLower(isPG, SeededRegions[i].name) = PyLower(ProbeCand) }
    IN /\ \A j \in aliasOf :
            ~probe.raised /\ probe.rid = SeededAliases[j].region_id
       /\ aliasOf = {} =>
            \A i \in nameOf : ~probe.raised /\ probe.rid = SeededRegions[i].id

\* C9 witness: the candidate equals an alias of the district returned, and
\* its slug contains the name of another district ("Braganca" holds "braga").
C9_Witness ==
  /\ ProbedSeeded /\ ~probe.raised
  /\ \E j \in 1..Len(SeededAliases) :
       /\ PyLower(SeededAliases[j].alias) = PyLower(ProbeCand)
       /\ probe.rid = SeededAliases[j].region_id
  /\ \E i \in 1..Len(SeededRegions) :
       /\ SeededRegions[i].id # probe.rid
       /\ Contains(_slug(ProbeCand), PyLower(SeededRegions[i].name))

\* The candidates of the model that equal no alias and no district name,
\* ignoring case, and whose slug contains none of them.
Unmatched ==
  { cand \in Candidates :
      /\ \A j \in 1..Len(SeededAliases) :
           /\ PyLower(SeededAliases[j].alias) # PyLower(cand)
           /\ ~Contains(_slug(cand), PyLower(SeededAliases[j].alias))
      /\ \A i \in 1..Len(SeededRegions) :
           /\ PyLower(SeededRegions[i].name) # PyLower(cand)
           /\ ~Contains(_slug(cand), PyLower(SeededRegions[i].name)) }

\* C8 (as claimed): on either backend, a candidate that matches nothing
\* resolves to None without raising, and a save_cars whose list holds such a
\* record does not raise, counts it and leaves its row in cars.
C8_MissIsNoError ==
  /\ ProbedSeeded /\ ProbeCand \in Unmatched =>
       ~probe.raised /\ probe.rid = IntNull
  /\ \A i \in 1..Len(call.args) :
       ( /\ call.op = "save_cars"
         /\ Truthy(KeyOf(call.args[i]))
         /\ Candidate(call.args[i].city, call.args[i].region) \in Unmatched )
       => /\ ~call.raised
          /\ call.value = Cardinality({ j \in 1..Len(call.args) :
                                          Truthy(KeyOf(call.args[j])) })
          /\ KeyOf(call.args[i]) \in ListingIds(cars)

\* The seeded districts written with a diacritic, and their plain aliases.
DiacriticPairs ==
  { <<Evora_, Evora>>, <<Braganca_, Braganca>>, <<Santarem_, Santarem>>,
    <<Setubal_, Setubal>> }

\* C10 (as claimed): on the seeded tables, a district name with a diacritic
\* resolves to a region id, the one its plain alias resolves to.
C10_DiacriticEquivalence ==
  \A pr \in DiacriticPairs :
    (ProbedSeeded /\ ProbeCand = pr[1]) =>
      /\ ~probe.raised
      /\ probe.rid # IntNull
      /\ resolve_region_id(isPG, regions, region_aliases, NoneStr, pr[2])
           = Found(probe.rid)

\* The candidate as the claim words it: region when it is not empty, city
\* otherwise, and the empty text when both are missing.
ChosenText(city, region) ==
  IF region # NoneStr /\ region # <<>> THEN region
  ELSE IF city # NoneStr THEN city
  ELSE <<>>

BlankText(t) == \A i \in 1..Len(t) : t[i] = " "

\* C21: resolve_region_id works on region when region is not empty and on
\* city otherwise; when that text is empty or only whitespace the result is
\* None, without raising and without a query; otherwise, on the seeded
\* tables, the result is the one the three queries give for that text,
\* stripped.
C21_CandidateChoice ==
  probe.fn = "resolve_region_id" =>
    LET chosen == ChosenText(probe.city, probe.region)
    IN IF BlankText(chosen)
         THEN ~probe.raised /\ probe.rid = IntNull /\ probe.queries = 0
         ELSE /\ probe.queries >= 1
              /\ probe.seeded =>
                   [raised |-> probe.raised, rid |-> probe.rid]
                     = ResolveTiers(isPG, SeededRegions, SeededAliases, Strip(chosen))

\* C21 witness: the region is only whitespace and the city names a
\* district; the region was chosen and nothing was looked up.
C21_Witness ==
  /\ probe.fn = "resolve_region_id" /\ probe.seeded
  /\ probe.region = <<" ">> /\ probe.city = Evora
  /\ probe.rid = IntNull /\ probe.queries = 0

\* The slugs of the name and the aliases of the seeded district with id d.
DistrictSlugs(d) ==
  { _slug(SeededRegions[i].name) : i \in { j \in 1..Len(SeededRegions) : SeededRegions[j].id = d } }
  \cup { _slug(SeededAliases[j].alias) :
           j \in { k \in 1..Len(SeededAliases) : SeededAliases[k].region_id = d } }

\* The seeded districts with a slug that the slug of the text contains.
SlugDistricts(cand) ==
  { d \in 1..Len(SeededRegions) : \E n \in DistrictSlugs(d) : Contains(_slug(cand), n) }

\* C22 (as claimed): on the seeded tables of either backend, a candidate
\* that the alias query and the name query miss, and whose slug contains
\* the slug of a district's name or alias, resolves without raising to a
\* district with such a slug.
C22_SlugContainsResolves ==
  ( /\ ProbedSeeded /\ ProbeCand # <<>>
    /\ AliasHits(isPG, SeededRegions, SeededAliases, ProbeCand) = <<>>
    /\ NameHits(isPG, SeededRegions, ProbeCand) = <<>>
    /\ SlugDistricts(ProbeCand) # {} )
  => /\ ~probe.raised
     /\ probe.rid \in SlugDistricts(ProbeCand)

\* ------------------------------------------------------------------------
\* Properties of the numeric coercions (SpecNorm)
\* ------------------------------------------------------------------------
\* The number written by a sequence of digits.
RECURSIVE DigitsValue(_)
DigitsValue(ds) ==
  IF ds = <<>> THEN 0
  ELSE DigitsValue(SubSeq(ds, 1, Len(ds) - 1)) * 10 + DigitVal(ds[Len(ds)])

DigitsOf(t) == SelectSeq(t, LAMBDA c : c \in Digits)

\* The digits of the leading digit run of a text: from its first digit up to
\* the first later character that is no digit, space or dot.
LeadingRunDigits(t) ==
  LET first == CHOOSE i \in 1..Len(t) :
                 t[i] \in Digits /\ \A k \in 1..(i - 1) : t[k] \notin Digits
      stops == { j \in (first + 1)..Len(t) : t[j] \notin Digits \cup {" ", "."} }
      stop == IF stops = {} THEN Len(t) + 1
              ELSE CHOOSE j \in stops : \A k \in stops : j <= k
  IN DigitsOf(SubSeq(t, first, stop - 1))

\* C11: the extraction of a text with a digit gives the integer written by
\* the digits of its leading digit run, spaces and dots between them left
\* out ("12 345 EUR" gives 12345, "180.000 km" gives 180000), and
\* _normalize_and_dedupe keeps that integer as it is.
C11_DigitRunToInteger ==
  (probe.fn = "extract_int" /\ probe.arg.kind = "str" /\ DigitsOf(probe.arg.s) # <<>>) =>
    /\ probe.out = Returned(PyIntV(DigitsValue(LeadingRunDigits(probe.arg.s))))
    /\ probe.kept = probe.out
    /\ probe.arg.s = PriceText => probe.out.value = PyIntV(12345)
    /\ probe.arg.s = MileageText => probe.out.value = PyIntV(180000)

\* C11 witness: the mileage text, with a dot as thousands separator, was
\* extracted and normalized.
C11_Witness ==
  /\ probe.fn = "extract_int" /\ probe.arg = PyStrV(MileageText)
  /\ probe.kept = Returned(PyIntV(180000))

\* C26 (as claimed): a no-break space between the digits is a thousands
\* separator like a space or a dot: the three mileage texts "180 000 km",
\* "180.000 km" and "180<NBSP>000 km" all give 180000.
C26_NbspIsSeparator ==
  ( /\ probe.fn = "extract_int"
    /\ probe.arg \in { PyStrV(SpaceMileageText), PyStrV(MileageText),
                       PyStrV(NbspMileageText) } )
  => probe.out = Returned(PyIntV(180000))

\* The value as text, spaces and dots removed.
Cleaned(x) == SelectSeq(str_(x), LAMBDA c : c \notin {" ", "."})

\* An integer literal as int() reads it: an optional sign, then digits that
\* may be grouped by single underscores.
LiteralBody(t) == IF t # <<>> /\ t[1] \in {"+", "-"} THEN Tail(t) ELSE t
IsIntLiteral(t) ==
  LET body == LiteralBody(t)
  IN /\ body # <<>>
     /\ body[1] \in Digits /\ body[Len(body)] \in Digits
     /\ \A i \in 1..Len(body) : body[i] \in Digits \cup {"_"}
     /\ \A i \in 1..(Len(body) - 1) : ~(body[i] = "_" /\ body[i + 1] = "_")
LiteralValue(t) ==
  IF t[1] = "-" THEN 0 - DigitsValue(DigitsOf(t)) ELSE DigitsValue(DigitsOf(t))

\* C12: to_int on None, an integer or a text, and _to_int on None or a text,
\* never raise; they return the integer when the value, spaces and dots
\* removed, is an integer literal, and None otherwise.
C12_CoercionNeverRaises ==
  probe.fn \in {"to_int", "_to_int"} =>
    /\ ~probe.out.raised
    /\ probe.out.value =
         IF IsIntLiteral(Cleaned(probe.arg))
           THEN PyIntV(LiteralValue(Cleaned(probe.arg)))
           ELSE PyNone

\* C12 witness: a text that is no integer even without its spaces and dots
\* was coerced by _to_int, to None.
C12_Witness ==
  /\ probe.fn = "_to_int" /\ probe.arg.kind = "str"
  /\ \E i \in 1..Len(probe.arg.s) : probe.arg.s[i] = "k"
  /\ \E i \in 1..Len(probe.arg.s) : probe.arg.s[i] \in Digits
  /\ probe.out = Returned(PyNone)

\* ------------------------------------------------------------------------
\* Properties of the card extractors (SpecCards)
\* ------------------------------------------------------------------------
\* The article is among the cards returned.
ReturnedAsCard(art) == \E i \in 1..Len(probe.out) : probe.out[i] = art

\* C23 (as claimed): an article of the results container is returned as a
\* card exactly when one of its links, the first or a later one, is a
\* listing link.
C23_CardIffAnyListingLink ==
  (probe.fn = "_find_result_cards" /\ probe.arg.container) =>
    \A i \in 1..Len(probe.arg.articles) :
      ReturnedAsCard(probe.arg.articles[i]) <=>
        \E k \in 1..Len(probe.arg.articles[i].links) :
          IsListingHref(probe.arg.articles[i].links[k])

\* C24 (as claimed): the id extracted from the URL <prefix>ID<token>.html
\* is <token>, whatever the prefix; without the pattern the id is None and
\* the URL is the identity key of the record.
C24_IdIsToken ==
  probe.fn = "_extract_url_and_id" =>
    /\ \A pr \in ListingUrls :
         FirstLink(probe.arg) = Href(pr) => probe.out.listing_id = pr.token
    /\ FirstLink(probe.arg) \in {PromoHref, NoIdHref} =>
         /\ probe.out.listing_id = NoneStr
         /\ probe.out.url = urljoin(BASE, FirstLink(probe.arg))

\* The h3 headings of the article whose text begins with a digit.
LeadingH3s(art) ==
  { i \in 1..Len(H3s(art)) :
      /\ get_text(H3s(art)[i].text) # <<>>
      /\ get_text(H3s(art)[i].text)[1] \in Digits }

\* C25 (as claimed): the price is the integer run of the first h3 whose
\* text begins with one, and None when no h3 text begins with a digit; an
\* h3 with digits only after other text is passed over.
C25_PriceFromLeadingRun ==
  probe.fn = "_extract_price_currency" =>
    IF LeadingH3s(probe.arg) = {} THEN probe.out.price = PyNone
    ELSE LET i == CHOOSE a \in LeadingH3s(probe.arg) :
                    \A b \in LeadingH3s(probe.arg) : a <= b
         IN probe.out.price =
              extract_int(PyStrV(get_text(H3s(probe.arg)[i].text))).value

\* The seller line of the article is there: the second <p> of the second
\* <dl>.
HasSellerLine(art) == Len(art.dls) >= 2 /\ Len(art.dls[2]) >= 2

\* C27 (as claimed): with a seller line, seller_type is the label the line
\* contains, or the text of the line when it contains none; it is None only
\* without a seller line.
C27_SellerTypeDefaultsToText ==
  probe.fn = "_extract_location_and_seller" =>
    IF ~HasSellerLine(probe.arg) THEN probe.out.seller_type = NoneStr
    ELSE LET stxt == get_text(probe.arg.dls[2][2])
             labels == { l \in {Profissional, Particular} : In(l, stxt) }
         IN IF labels # {} THEN probe.out.seller_type \in labels
            ELSE probe.out.seller_type = stxt

\* The listed brands that, followed by a space, start the title, ignoring
\* case.
BrandsStarting(title) ==
  { i \in 1..Len(MULTIWORD_BRANDS) :
      /\ Len(title) > Len(MULTIWORD_BRANDS[i])
      /\ PyLower(SubSeq(title, 1, Len(MULTIWORD_BRANDS[i]))) = MULTIWORD_BRANDS[i]
      /\ title[Len(MULTIWORD_BRANDS[i]) + 1] = " " }

\* C28 (as claimed): for every title, whitespace-only ones included, the
\* call does not raise; it returns None for a missing or empty title, else
\* the title's own spelling of the first listed brand that starts it, else
\* the first token of the title.
C28_BrandNeverRaises ==
  probe.fn = "_extract_brand_from_title" =>
    /\ ~probe.out.raised
    /\ probe.out.value =
         IF probe.arg \in {NoneStr, <<>>} THEN PyNone
         ELSE IF BrandsStarting(probe.arg) # {}
           THEN LET i == CHOOSE a \in BrandsStarting(probe.arg) :
                           \A b \in BrandsStarting(probe.arg) : a <= b
                IN PyStrV(SubSeq(probe.arg, 1, Len(MULTIWORD_BRANDS[i])))
         ELSE PyStrV(FirstToken(probe.arg))

\* ------------------------------------------------------------------------
\* Properties of run_scrape (SpecRun)
\* ------------------------------------------------------------------------
\* The first record of the list with the given key.
FirstWith(records, k) ==
  records[CHOOSE i \in 1..Len(records) :
            /\ KeyOf(records[i]) = k
            /\ \A j \in 1..(i - 1) : KeyOf(records[j]) # k]

\* The keys under which the list holds two records that differ.
DupKeys(records) ==
  { k \in Keys(records) :
      \E i, j \in 1..Len(records) :
        /\ KeyOf(records[i]) = k /\ KeyOf(records[j]) = k
        /\ records[i] # records[j] }

SameColumns(row, rec) ==
  /\ row.title = rec.title /\ row.url = rec.url
  /\ row.city = rec.city /\ row.region = rec.region
  /\ row.seller_type = rec.seller_type /\ row.price = rec.price
  /\ row.currency = rec.currency /\ row.brand = rec.brand
  /\ row.fuel = rec.fuel /\ row.model_year = rec.model_year
  /\ row.mileage_km = rec.mileage_km

\* The run got as far as save_cars.
ReachedPersist ==
  pc \in {"done", "aborted"} /\ outcome.kind \in {"summary", "save_error"}

\* The pages of the fetch_html calls of the run, in order.
FetchedPages ==
  LET RECURSIVE Scan(_)
      Scan(i) == IF i > Len(events) THEN <<>>
                 ELSE IF events[i][1] \in {"fetch", "fetch_failed"}
                   THEN <<events[i][2]>> \o Scan(i + 1)
                   ELSE Scan(i + 1)
  IN Scan(1)

\* The positions of the events of a kind and page.
EventsAt(kind, page) == { i \in 1..Len(events) : events[i] = <<kind, page>> }

\* C13 (as claimed): the callback for page q is called after the fetch of
\* page q and before page q is parsed, once per fetched page.
C13_ProgressBeforeParse ==
  \A q \in 1..MaxPages :
    /\ \A i \in EventsAt("progress", q) :
         /\ \E j \in EventsAt("fetch", q) : j < i
         /\ \A j \in EventsAt("parse", q) : i < j
    /\ Cardinality(EventsAt("progress", q)) <= 1

\* C13 (amended): the callback for page q is called right after page q was
\* fetched and parsed, and once for every page fetched and parsed: the only
\* parsed page without its call is the one whose call is next.
C13_ProgressAfterParse ==
  \A q \in 1..MaxPages :
    /\ \A i \in EventsAt("progress", q) :
         /\ i >= 3
         /\ events[i - 1] = <<"parse", q>>
         /\ events[i - 2] = <<"fetch", q>>
    /\ Cardinality(EventsAt("progress", q)) =
         IF pc = "progress" /\ p = q THEN 0
         ELSE Cardinality(EventsAt("parse", q))
    /\ Cardinality(EventsAt("parse", q)) <= 1

\* C13 witness: the callback for page 2 was called, page 2 fetched and
\* parsed before it.
C13_Witness ==
  /\ Len(events) >= 3
  /\ events[Len(events)] = <<"progress", 2>>
  /\ events[Len(events) - 1] = <<"parse", 2>>
  /\ pc = "check"

\* The positions of the fetch_html calls, returned or raised.
FetchPositions == { i \in 1..Len(events) : events[i][1] \in {"fetch", "fetch_failed"} }

\* C14: no delay is taken before the fetch of page 1; the fetches are of
\* pages 1, 2, ... in order; and between the fetch of page q and the fetch
\* of page q+1 page q is parsed and exactly one delay is taken.
C14_OneDelayBetweenFetches ==
  /\ \A i \in 1..Len(events) :
       events[i][1] = "sleep" => \E j \in 1..(i - 1) : events[j] = <<"fetch", 1>>
  /\ FetchedPages = [i \in 1..Len(FetchedPages) |-> i]
  /\ \A i, j \in FetchPositions :
       (i < j /\ \A k \in FetchPositions : ~(i < k /\ k < j)) =>
         /\ events[i][1] = "fetch"
         /\ events[j][2] = events[i][2] + 1
         /\ \E k \in (i + 1)..(j - 1) : events[k] = <<"parse", events[i][2]>>
         /\ Cardinality({ k \in (i + 1)..(j - 1) : events[k][1] = "sleep" }) = 1

\* C14 witness: page 2 was fetched, after page 1 and a delay.
C14_Witness ==
  /\ EventsAt("fetch", 1) # {} /\ EventsAt("fetch", 2) # {}
  /\ EventsAt("sleep", 1) # {}
  /\ pc = "parse"

\* The three ways a run may end.
CompletedAllPages ==
  outcome.kind = "summary" /\ pages_fetched = total_pages
StoppedOnEmptyPage ==
  /\ outcome.kind = "summary" /\ pages_fetched < total_pages
  /\ recs = <<>> /\ Len(FetchedPages) = pages_fetched + 1
AbortedOnFetch == outcome.kind = "fetch_error"

\* C18 (as claimed): a run that has ended made at most total_pages fetches
\* and ended in exactly one of three ways: after total_pages pages with
\* cards, at the first page without cards, or with the exception of a fetch;
\* in the first two the batch was normalized and saved once, after the last
\* fetch.
C18_EndsInOneOfThreeWays ==
  pc \in {"done", "aborted"} =>
    /\ Len(FetchedPages) <= total_pages
    /\ Cardinality({ w \in {"completed", "empty", "fetch"} :
                       \/ w = "completed" /\ CompletedAllPages
                       \/ w = "empty" /\ StoppedOnEmptyPage
                       \/ w = "fetch" /\ AbortedOnFetch }) = 1
    /\ (CompletedAllPages \/ StoppedOnEmptyPage) =>
         /\ Cardinality({ i \in 1..Len(events) : events[i][1] = "persist" }) = 1
         /\ events[Len(events)][1] = "persist"

\* C3 (as claimed): when the raw records of a run hold several differing
\* records under one key, the run leaves exactly one row for that key, with
\* the columns of the first of them.
C3_FirstOccurrencePersisted ==
  ReachedPersist =>
    \A k \in DupKeys(all_recs) :
      /\ Cardinality({ row \in cars : row.listing_id = k }) = 1
      /\ \A row \in cars :
           row.listing_id = k => SameColumns(row, FirstWith(all_recs, k))

\* The run left its loop at the break, on page k.
BrokeOnEmptyAt(k) ==
  /\ ReachedPersist
  /\ Len(events) >= 2
  /\ events[Len(events)][1] = "persist"
  /\ events[Len(events) - 1] = <<"progress", k>>
  /\ recs = <<>>

\* C5 (as claimed): when page k is the first page without cards, pages 1..k
\* are the pages fetched, pages_fetched is k-1, and the run returns its
\* summary without raising; for k = 1 the counters are 0 and cars is as it
\* was.
C5_EarlyStop ==
  \A k \in 1..(MaxPages + 1) :
    BrokeOnEmptyAt(k) =>
      /\ FetchedPages = [i \in 1..k |-> i]
      /\ outcome.kind = "summary"
      /\ outcome.pages_fetched = k - 1
      /\ k = 1 => /\ outcome.raw_records = 0 /\ outcome.cleaned_records = 0
                  /\ outcome.upserted = 0
                  /\ cars = cars_at_start

\* C29: a summary returned by run_scrape has upserted = cleaned_records <=
\* raw_records and 0 <= pages_fetched <= the pages asked for; raw_records
\* is the number of cards of the pages parsed, cleaned_records the number
\* of different keys among the raw records that have a key, and
\* pages_fetched the number of parsed pages that held a card.
C29_SummaryCounters ==
  outcome.kind = "summary" =>
    /\ outcome.upserted = outcome.cleaned_records
    /\ outcome.cleaned_records <= outcome.raw_records
    /\ 0 <= outcome.pages_fetched /\ outcome.pages_fetched <= total_pages
    /\ outcome.raw_records = Len(all_recs)
    /\ outcome.cleaned_records = Cardinality(Keys(all_recs))
    /\ outcome.pages_fetched = Cardinality({ i \in 1..Len(parsed) : parsed[i] >= 1 })
    /\ Len(parsed) = Len(FetchedPages)

\* C29 witness: a summary of a run asked for two pages, whose first page
\* held two cards of which one was dropped (a second card of the same
\* listing, or a card without identity) and whose second page was empty.
C29_Witness ==
  /\ outcome.kind = "summary" /\ total_pages = 2
  /\ parsed = <<2, 0>>
  /\ outcome.pages_fetched = 1 /\ outcome.raw_records = 2
  /\ outcome.cleaned_records = 1 /\ outcome.upserted = 1

\* The fetch of page k > 1 raised.
FetchFailedLater ==
  pc = "aborted" /\ outcome.kind = "fetch_error" /\ p > 1

\* C6 (as claimed): when the fetch of page k > 1 fails, the records of pages
\* 1..k-1 are persisted.
C6_EarlierPagesPersisted ==
  FetchFailedLater =>
    \A k \in Keys(all_recs) :
      \E row \in cars :
        row.listing_id = k /\ SameColumns(row, FirstWith(all_recs, k))

\* C6 (amended): when the fetch of page k > 1 fails, the run ends with the
\* exception and without a save_cars call: cars is as it was when the run
\* was called, the batch of pages 1..k-1 is not persisted.
C6_NothingPersisted ==
  FetchFailedLater =>
    /\ cars = cars_at_start
    /\ \A i \in 1..Len(events) : events[i][1] # "persist"

\* C6 witness: the fetch of page 2 failed with a keyed record of page 1 in
\* the batch, and cars holds no row for it.
C6_Witness ==
  /\ FetchFailedLater
  /\ \E k \in Keys(all_recs) : k \notin ListingIds(cars)

\* ------------------------------------------------------------------------
\* Properties of overlapping save_cars calls (SpecConc)
\* ------------------------------------------------------------------------
\* What writer w wrote under key k.
WroteOf(w, k) == CHOOSE e \in txns[w].wrote : e.key = k

\* Both calls committed, and both wrote key k, with different records.
BothWrote(k) ==
  /\ \A w \in Writers : txns[w].st = "committed"
  /\ \A w \in Writers : \E e \in txns[w].wrote : e.key = k
  /\ WroteOf(1, k).rec # WroteOf(2, k).rec

\* C17 (as claimed): when two overlapping save_cars calls both wrote a
\* listing_id, with different values, and both committed, every mutable
\* column of its row is as the call that committed last wrote it: the eleven
\* record columns, scraped_at, and the region_id of its city and region.
C17_LastCommitterWins ==
  \A k \in ListingIds(cars) :
    BothWrote(k) =>
      LET e == WroteOf(commits[Len(commits)], k)
          row == RowOf(cars, k)
      IN /\ SameColumns(row, e.rec)
         /\ row.scraped_at = e.at
         /\ row.region_id =
              resolve_region_id(isPG, regions, region_aliases, e.rec.city, e.rec.region).rid

====
